---- MODULE Spec2Model ----
(***************************************************************************)
(* slidedown: the parser of .directive{} markup (src/src/lib/parser.py),   *)
(* the directive registry and handlers (src/src/lib/directives.py), the    *)
(* node compiler (src/src/lib/compiler.py) and the program's pipeline      *)
(* (src/src/__main__.py).                                                  *)
(*                                                                         *)
(* Text is a sequence of characters.  A character is a one-character       *)
(* string; the byte \x00 is the character NUL.  Literal HTML that a        *)
(* handler emits from its template is kept as one item of the sequence     *)
(* (for instance "<strong>"): such an item holds no NUL and no character   *)
(* the parser looks at.  Positions are 0-based, as in the source.          *)
(***************************************************************************)
EXTENDS Integers, Sequences, FiniteSets, TLC

NUL == "NUL"
BSL == "\\"

Lower == {"a","b","c","d","e","f","g","h","i","j","k","l","m",
          "n","o","p","q","r","s","t","u","v","w","x","y","z"}
Upper == {"A","B","C","D","E","F","G","H","I","J","K","L","M",
          "N","O","P","Q","R","S","T","U","V","W","X","Y","Z"}
Digits == {"0","1","2","3","4","5","6","7","8","9"}

\* \w of the regular expressions
IsWord(c) == c \in Lower \cup Upper \cup Digits \cup {"_"}

\* str.isspace() and \s
IsSpace(c) == c \in {" ", "\n", "\t", "\r"}

\* the characters a directive name is made of
IsNameChar(c) == IsWord(c) \/ c = "-"

(***************************************************************************)
(* Python string primitives                                                *)
(***************************************************************************)
At(s, i) == s[i + 1]

\* s[a:b]
Slice(s, a, b) ==
    LET hi == IF b > Len(s) THEN Len(s) ELSE b
    IN  IF a >= hi THEN << >> ELSE SubSeq(s, a + 1, hi)

\* s[a:]
From(s, a) == Slice(s, a, Len(s))

\* s[p:].startswith(lit)
StartsWith(s, p, lit) ==
    /\ p + Len(lit) <= Len(s)
    /\ \A k \in 1..Len(lit) : s[p + k] = lit[k]

RECURSIVE Flatten(_)
Flatten(ss) == IF ss = << >> THEN << >> ELSE Head(ss) \o Flatten(Tail(ss))

RECURSIVE LStripFrom(_, _)
LStripFrom(s, i) ==
    IF i < Len(s) /\ IsSpace(At(s, i)) THEN LStripFrom(s, i + 1) ELSE i

RECURSIVE RStripTo(_, _)
RStripTo(s, j) ==
    IF j > 0 /\ IsSpace(At(s, j - 1)) THEN RStripTo(s, j - 1) ELSE j

\* the text as it is, nothing stripped
Unstripped(s) == s

\* s.strip()
Strip(s) ==
    LET a == LStripFrom(s, 0)
    IN  IF a >= Len(s) THEN << >> ELSE Slice(s, a, RStripTo(s, Len(s)))

\* str(n)
RECURSIVE IntToStr(_)
IntToStr(n) ==
    LET d == <<"0","1","2","3","4","5","6","7","8","9">>
    IN  IF n < 10 THEN << d[n + 1] >> ELSE IntToStr(n \div 10) \o << d[(n % 10) + 1] >>

\* the least position of a set of positions, or none when it is empty.  The
\* scanning loops of the code step over one character at a time until a
\* position of interest; they are written here as the step to the least
\* such position.
Least(S, none) == IF S = {} THEN none ELSE CHOOSE i \in S : \A j \in S : i <= j

\* first index >= p at which lit occurs in s, or -1 (str.find)
Find(s, lit, p) ==
    Least({i \in p..(Len(s) - Len(lit)) : StartsWith(s, i, lit)}, -1)

\* s.replace(old, new): every non-overlapping occurrence, left to right
\* str.replace with a count of one: the first occurrence only
ReplaceFirst(s, old, new) ==
    LET p == Find(s, old, 0)
    IN  IF p = -1 THEN s ELSE Slice(s, 0, p) \o new \o From(s, p + Len(old))

RECURSIVE Replace(_, _, _)
Replace(s, old, new) ==
    LET p == Find(s, old, 0)
    IN  IF p = -1 THEN s
        ELSE Slice(s, 0, p) \o new \o Replace(From(s, p + Len(old)), old, new)

\* number of non-overlapping occurrences of lit in s (str.count)
RECURSIVE Count(_, _)
Count(s, lit) ==
    LET p == Find(s, lit, 0)
    IN  IF p = -1 THEN 0 ELSE 1 + Count(From(s, p + Len(lit)), lit)

(***************************************************************************)
(* The directive token: a dot, a name of word characters with single      *)
(* inner hyphens, an opening brace (the pattern of directive_find)         *)
(***************************************************************************)
\* the end of the run of name characters that starts at p
RECURSIVE NameEnd(_, _)
NameEnd(s, p) ==
    IF p < Len(s) /\ IsNameChar(At(s, p)) THEN NameEnd(s, p + 1) ELSE p

\* s[a:b] is a name: words of \w characters joined by single hyphens
ValidName(s, a, b) ==
    /\ a < b
    /\ At(s, a) # "-"
    /\ At(s, b - 1) # "-"
    /\ \A k \in a..(b - 2) : ~(At(s, k) = "-" /\ At(s, k + 1) = "-")

\* re.match(pattern, s[p:]): the end of the match (just past the brace), or -1.
\* The name is the whole run of name characters: the brace must follow it.
DirectiveMatchAt(s, p) ==
    IF p < Len(s) /\ At(s, p) = "."
    THEN LET e == NameEnd(s, p + 1)
         IN  IF ValidName(s, p + 1, e) /\ e < Len(s) /\ At(s, e) = "{"
             THEN e + 1 ELSE -1
    ELSE -1

\* re.search(pattern, s[pos:]): the leftmost match at or after pos
DirectiveSearch(s, pos) ==
    LET i == Least({k \in pos..(Len(s) - 1) : DirectiveMatchAt(s, k) # -1}, -1)
    IN  IF i = -1 THEN [start |-> -1, end |-> -1]
        ELSE [start |-> i, end |-> DirectiveMatchAt(s, i)]

(***************************************************************************)
(* DirectiveRegistry                                                       *)
(***************************************************************************)
N_slide == <<"s","l","i","d","e">>
N_title == <<"t","i","t","l","e">>
N_body == <<"b","o","d","y">>
N_bf == <<"b","f">>
N_em == <<"e","m">>
N_tt == <<"t","t">>
N_underline == <<"u","n","d","e","r","l","i","n","e">>
N_typewriter == <<"t","y","p","e","w","r","i","t","e","r">>
N_o == <<"o">>
N_column == <<"c","o","l","u","m","n">>
N_fontStar == <<"f","o","n","t","-","*">>
N_cowpyStar == <<"c","o","w","p","y","-","*">>
N_code == <<"c","o","d","e">>
N_comment == <<"c","o","m","m","e","n","t">>
N_style == <<"s","t","y","l","e">>
N_class == <<"c","l","a","s","s">>
N_syntax == <<"s","y","n","t","a","x">>
N_meta == <<"m","e","t","a">>
N_align == <<"a","l","i","g","n">>
N_width == <<"w","i","d","t","h">>

\* DirectiveRegistry.__init__: the specs in registration order
RegistrySpecs ==
    << [name |-> N_slide, is_wildcard |-> FALSE, handler |-> "slide_handler"],
       [name |-> N_title, is_wildcard |-> FALSE, handler |-> "title_handler"],
       [name |-> N_body, is_wildcard |-> FALSE, handler |-> "body_handler"],
       [name |-> N_bf, is_wildcard |-> FALSE, handler |-> "strong"],
       [name |-> N_em, is_wildcard |-> FALSE, handler |-> "em"],
       [name |-> N_tt, is_wildcard |-> FALSE, handler |-> "tt"],
       [name |-> N_underline, is_wildcard |-> FALSE, handler |-> "u"],
       [name |-> <<"h","1">>, is_wildcard |-> FALSE, handler |-> "h1"],
       [name |-> <<"h","2">>, is_wildcard |-> FALSE, handler |-> "h2"],
       [name |-> <<"h","3">>, is_wildcard |-> FALSE, handler |-> "h3"],
       [name |-> <<"h","4">>, is_wildcard |-> FALSE, handler |-> "h4"],
       [name |-> <<"h","5">>, is_wildcard |-> FALSE, handler |-> "h5"],
       [name |-> <<"h","6">>, is_wildcard |-> FALSE, handler |-> "h6"],
       [name |-> N_typewriter, is_wildcard |-> FALSE, handler |-> "typewriter_handler"],
       [name |-> N_o, is_wildcard |-> FALSE, handler |-> "snippet_handler"],
       [name |-> N_column, is_wildcard |-> FALSE, handler |-> "column_handler"],
       [name |-> N_fontStar, is_wildcard |-> TRUE, handler |-> "font_handler"],
       [name |-> N_cowpyStar, is_wildcard |-> TRUE, handler |-> "cowpy_handler"],
       [name |-> N_code, is_wildcard |-> FALSE, handler |-> "code_handler"],
       [name |-> N_comment, is_wildcard |-> FALSE, handler |-> "comment_handler"],
       [name |-> N_style, is_wildcard |-> FALSE, handler |-> "style_handler"],
       [name |-> N_class, is_wildcard |-> FALSE, handler |-> "class_handler"],
       [name |-> N_syntax, is_wildcard |-> FALSE, handler |-> "syntax_handler"],
       [name |-> N_meta, is_wildcard |-> FALSE, handler |-> "meta_handler"] >>

\* name.rsplit('-', 1)[0] + '-'
RECURSIVE LastDash(_, _)
LastDash(name, j) ==
    IF j = 0 THEN 0 ELSE IF name[j] = "-" THEN j ELSE LastDash(name, j - 1)

\* DirectiveSpec.matches with the prefix taken without its dash
spec_matchesStem(spec, directive_name) ==
    \/ spec.name = directive_name
    \/ /\ spec.is_wildcard
       /\ LastDash(spec.name, Len(spec.name)) > 0
       /\ StartsWith(directive_name, 0,
                     SubSeq(spec.name, 1, LastDash(spec.name, Len(spec.name)) - 1))

\* DirectiveSpec.matches
spec_matches(spec, directive_name) ==
    \/ spec.name = directive_name
    \/ /\ spec.is_wildcard
       /\ LastDash(spec.name, Len(spec.name)) > 0
       /\ StartsWith(directive_name, 0,
                     SubSeq(spec.name, 1, LastDash(spec.name, Len(spec.name))))

\* DirectiveRegistry.get: the handler, or "None"
registry_get(name) ==
    LET exact == {i \in 1..Len(RegistrySpecs) : RegistrySpecs[i].name = name}
        wild == {i \in 1..Len(RegistrySpecs) :
                    RegistrySpecs[i].is_wildcard /\ spec_matches(RegistrySpecs[i], name)}
        first(S) == CHOOSE i \in S : \A j \in S : i <= j
    IN  IF exact # {} THEN RegistrySpecs[first(exact)].handler
        ELSE IF wild # {} THEN RegistrySpecs[first(wild)].handler
        ELSE "None"

IsRegistered(name) == registry_get(name) # "None"

(***************************************************************************)
(* AppSettings.placeHolder_make and the two other placeholder forms        *)
(***************************************************************************)
placeholder_prefix == <<NUL, "C", "H", "I", "L", "D", "_">>
placeholder_suffix == <<NUL>>
\* a placeholder that does not depend on the index
placeHolder_same(index) == placeholder_prefix \o IntToStr(0) \o placeholder_suffix
placeHolder_make(index) == placeholder_prefix \o IntToStr(index) \o placeholder_suffix

EscapePrefix == <<NUL, "E", "S", "C", "A", "P", "E", "_">>
EscapePlaceholder(id) == EscapePrefix \o IntToStr(id) \o <<NUL>>
CodePrefix == <<NUL, "C", "O", "D", "E", "_">>
CodePlaceholder(id) == CodePrefix \o IntToStr(id) \o <<NUL>>

(***************************************************************************)
(* Parser.escapes_protect                                                  *)
(***************************************************************************)
\* re.match of the escaped token (backslash, dot, name, optional backslash,
\* brace) at source[pos:]: the end of the name and of the match, or -1
EscapeMatchAt(s, pos) ==
    IF pos + 1 < Len(s) /\ At(s, pos) = BSL /\ At(s, pos + 1) = "."
    THEN LET e == NameEnd(s, pos + 2)
         IN  IF ~ValidName(s, pos + 2, e) THEN [name_end |-> -1, end |-> -1]
             ELSE IF e < Len(s) /\ At(s, e) = "{" THEN [name_end |-> e, end |-> e + 1]
             ELSE IF e + 1 < Len(s) /\ At(s, e) = BSL /\ At(s, e + 1) = "{"
                  THEN [name_end |-> e, end |-> e + 2]
             ELSE [name_end |-> -1, end |-> -1]
    ELSE [name_end |-> -1, end |-> -1]

\* a position the inner loop treats specially: a brace, or a backslash
\* before a brace
EscapeBraceAt(s, i) ==
    \/ At(s, i) \in {"{", "}"}
    \/ i < Len(s) - 1 /\ At(s, i) = BSL /\ At(s, i + 1) \in {"{", "}"}

\* the inner while loop: the scan for the closing brace of an escaped directive
RECURSIVE EscapeScan(_, _, _, _)
EscapeScan(s, brace_pos, depth, escaped_content) ==
    LET next == Least({i \in brace_pos..(Len(s) - 1) : EscapeBraceAt(s, i)}, Len(s))
    IN  IF ~(brace_pos < Len(s) /\ depth > 0)
        THEN [brace_pos |-> brace_pos, depth |-> depth,
              escaped_content |-> escaped_content]
        ELSE IF next > brace_pos
             THEN EscapeScan(s, next, depth,
                             escaped_content \o Slice(s, brace_pos, next))
        ELSE IF brace_pos < Len(s) - 1 /\ At(s, brace_pos) = BSL
                  /\ At(s, brace_pos + 1) = "}"
             THEN EscapeScan(s, brace_pos + 2, depth - 1, Append(escaped_content, "}"))
        ELSE IF brace_pos < Len(s) - 1 /\ At(s, brace_pos) = BSL
                  /\ At(s, brace_pos + 1) = "{"
             THEN EscapeScan(s, brace_pos + 2, depth + 1, Append(escaped_content, "{"))
        ELSE IF At(s, brace_pos) = "{"
             THEN EscapeScan(s, brace_pos + 1, depth + 1, Append(escaped_content, "{"))
        ELSE EscapeScan(s, brace_pos + 1, depth - 1, Append(escaped_content, "}"))

\* the scan that starts at the escaped directive met at pos (lines 144-183)
EscapeTry(s, pos) ==
    LET m == EscapeMatchAt(s, pos)
        b0 == m.end - 1
        brace_start == IF At(s, b0) = BSL THEN b0 + 1 ELSE b0
    IN  EscapeScan(s, brace_start + 1, 1,
                   <<".">> \o Slice(s, pos + 2, m.name_end) \o <<"{">>)

\* the token of an escaped directive starts at pos, closed or not
EscapedAtToken(s, pos) ==
    /\ pos < Len(s) - 1 /\ At(s, pos) = BSL /\ At(s, pos + 1) = "."
    /\ EscapeMatchAt(s, pos).end # -1

\* a well-formed escaped directive starts at pos: the token matches (line 141)
\* and its closing brace is found (line 185)
EscapedAt(s, pos) ==
    /\ pos < Len(s) - 1 /\ At(s, pos) = BSL /\ At(s, pos + 1) = "."
    /\ EscapeMatchAt(s, pos).end # -1
    /\ EscapeTry(s, pos).depth = 0

\* the outer while loop.  runs records, for each protected sequence, the
\* positions [pos, brace_pos) it covered in the source.
RECURSIVE EscapeLoop(_, _, _, _, _, _)
EscapeLoop(s, pos, result, escape_id, table, runs) ==
    LET next == Least({i \in pos..(Len(s) - 1) : EscapedAt(s, i)}, Len(s))
    IN  IF ~(pos < Len(s))
        THEN [source |-> result, escaped_sequences |-> table, runs |-> runs]
        ELSE IF next > pos
        THEN EscapeLoop(s, next, result \o Slice(s, pos, next), escape_id, table, runs)
        ELSE EscapeLoop(s, EscapeTry(s, pos).brace_pos,
                        result \o EscapePlaceholder(escape_id),
                        escape_id + 1,
                        (escape_id :> EscapeTry(s, pos).escaped_content) @@ table,
                        Append(runs, [start |-> pos, end |-> EscapeTry(s, pos).brace_pos]))

EmptyDict == << >>

escapes_protect(s) == EscapeLoop(s, 0, << >>, 0, EmptyDict, << >>)

(***************************************************************************)
(* Errors: a raised SyntaxError, with what its message names               *)
(***************************************************************************)
\* context and caret are the snippet of the source and the column of the
\* caret line the message prints; a caret of -1 says the message has neither
NoError ==
    [kind |-> "none", msg |-> "", line |-> 0, position |-> -1, context |-> << >>, caret |-> -1]

\* raise SyntaxError(f"..."): a line of 0 or a position of -1 is one the
\* message does not name
SyntaxError(msg, line, position) ==
    [kind |-> "SyntaxError", msg |-> msg, line |-> line, position |-> position,
     context |-> << >>, caret |-> -1]

\* the characters Parser.error shows on each side of the position
ContextWidth == 40
\* the columns before the snippet ("Context: ...") and before the caret's blanks
ContextIndent == 12
CaretIndent == 9

\* Parser.error(message) with self.source, self.position, self.line_number
Parser_error(message, s, position, line_number) ==
    LET context_start == IF position - ContextWidth > 0 THEN position - ContextWidth ELSE 0
        context_end == IF Len(s) < position + ContextWidth THEN Len(s)
                       ELSE position + ContextWidth
    IN  [kind |-> "SyntaxError", msg |-> message, line |-> line_number,
         position |-> position,
         context |-> Slice(s, context_start, context_end),
         caret |-> CaretIndent + (position - context_start)]

(***************************************************************************)
(* Parser.brace_findMatching                                               *)
(***************************************************************************)
\* the depth-tracking while loop; also written out in content_processRecursive
\* (lines 500-507) and in modifiers_extract (lines 598-605)
RECURSIVE BraceScan(_, _, _)
BraceScan(s, pos, depth) ==
    LET next == Least({i \in pos..(Len(s) - 1) : At(s, i) \in {"{", "}"}}, Len(s))
    IN  IF pos < Len(s) /\ depth > 0
        THEN IF next = Len(s) THEN [pos |-> Len(s), depth |-> depth]
             ELSE BraceScan(s, next + 1,
                            IF At(s, next) = "{" THEN depth + 1 ELSE depth - 1)
        ELSE [pos |-> pos, depth |-> depth]

\* the position of the matching brace, or the error raised
brace_findMatching(s, start_pos, line_number) ==
    LET r == BraceScan(s, start_pos + 1, 1)
    IN  IF r.depth # 0
        THEN [pos |-> -1, err |-> SyntaxError("Unmatched brace", line_number, start_pos)]
        ELSE [pos |-> r.pos - 1, err |-> NoError]

(***************************************************************************)
(* Parser.codeblocks_protect                                               *)
(***************************************************************************)
CodeOpen == <<".">> \o N_code \o <<"{">>
SyntaxOpen == <<".">> \o N_syntax \o <<"{">>

\* a test for the marker that allows no white space before it
HasSyntaxMarkerAtStart(raw_content) == StartsWith(raw_content, 0, SyntaxOpen)

\* re.match(r'^\s*\.syntax\{', raw_content)
HasSyntaxMarker(raw_content) ==
    StartsWith(raw_content, LStripFrom(raw_content, 0), SyntaxOpen)

\* what is written for a block whose interior starts with the syntax marker
ProtectedBlockText(code_id) == CodeOpen \o CodePlaceholder(code_id) \o <<"}">>

\* the while loop.  blocks records, for each .code{ the scan handled, its
\* brace positions in the source and whether it was protected.
RECURSIVE CodeLoop(_, _, _, _, _, _, _)
CodeLoop(s, pos, result, code_id, table, blocks, line_number) ==
    IF ~(pos < Len(s))
    THEN [source |-> result, protected_code_blocks |-> table, blocks |-> blocks,
          err |-> NoError]
    ELSE IF StartsWith(s, pos, CodeOpen)
    THEN LET brace_start == pos + Len(CodeOpen) - 1
             m == brace_findMatching(s, brace_start, line_number)
             brace_end == m.pos
             raw_content == Slice(s, brace_start + 1, brace_end)
         IN  IF m.err # NoError
             THEN [source |-> s, protected_code_blocks |-> table, blocks |-> blocks,
                   err |-> m.err]
             ELSE IF HasSyntaxMarker(raw_content)
             THEN CodeLoop(s, brace_end + 1, result \o ProtectedBlockText(code_id),
                           code_id + 1, (code_id :> raw_content) @@ table,
                           Append(blocks, [brace_start |-> brace_start,
                                           brace_end |-> brace_end, protected |-> TRUE]),
                           line_number)
             ELSE CodeLoop(s, brace_end + 1, result \o Slice(s, pos, brace_end + 1),
                           code_id, table,
                           Append(blocks, [brace_start |-> brace_start,
                                           brace_end |-> brace_end, protected |-> FALSE]),
                           line_number)
    ELSE LET next == IF Find(s, CodeOpen, pos) = -1 THEN Len(s)
                     ELSE Find(s, CodeOpen, pos)
         IN  CodeLoop(s, next, result \o Slice(s, pos, next), code_id, table, blocks,
                      line_number)

codeblocks_protect(s, line_number) ==
    CodeLoop(s, 0, << >>, 0, EmptyDict, << >>, line_number)

(***************************************************************************)
(* Parser.modifiers_extract                                                *)
(***************************************************************************)
ModifierNames == <<N_style, N_class, N_syntax>>

\* re.match(r'^\.((style|class|syntax))\{', content[pos:]): the name, or << >>
ModifierAt(content, pos) ==
    LET hit == {i \in 1..Len(ModifierNames) :
                  StartsWith(content, pos, <<".">> \o ModifierNames[i] \o <<"{">>)}
    IN  IF hit = {} THEN << >> ELSE ModifierNames[CHOOSE i \in hit : TRUE]

\* the run of value characters: \w+ (pct FALSE) or [\w%]+ (pct TRUE)
RECURSIVE ValueEnd(_, _, _)
ValueEnd(s, p, pct) ==
    IF p < Len(s) /\ (IsWord(At(s, p)) \/ (pct /\ At(s, p) = "%"))
    THEN ValueEnd(s, p + 1, pct) ELSE p

\* key\s*=\s*(value) matched at p: where the value starts and ends, or -1
AssignAt(s, p, key, pct) ==
    IF ~StartsWith(s, p, key) THEN [vstart |-> -1, vend |-> -1]
    ELSE LET q == LStripFrom(s, p + Len(key))
         IN  IF ~(q < Len(s) /\ At(s, q) = "=") THEN [vstart |-> -1, vend |-> -1]
             ELSE LET r == LStripFrom(s, q + 1)
                      e == ValueEnd(s, r, pct)
                  IN  IF e > r THEN [vstart |-> r, vend |-> e]
                      ELSE [vstart |-> -1, vend |-> -1]

\* re.search(key\s*=\s*(value), s): the leftmost match at or after p
AssignSearch(s, p, key, pct) ==
    LET i == Least({k \in p..(Len(s) - 1) : AssignAt(s, k, key, pct).vend # -1}, -1)
    IN  IF i = -1 THEN [start |-> -1, vstart |-> -1, vend |-> -1]
        ELSE [start |-> i, vstart |-> AssignAt(s, i, key, pct).vstart,
              vend |-> AssignAt(s, i, key, pct).vend]

\* the end of key\s*=\s*value\s*;?\s* whose value ends at vend
AssignTail(s, vend) ==
    LET a == LStripFrom(s, vend)
        b == IF a < Len(s) /\ At(s, a) = ";" THEN a + 1 ELSE a
    IN  LStripFrom(s, b)

\* re.sub(key\s*=\s*value\s*;?\s*, '', s)
RECURSIVE AssignRemove(_, _, _)
AssignRemove(s, key, pct) ==
    LET m == AssignSearch(s, 0, key, pct)
    IN  IF m.start = -1 THEN s
        ELSE Slice(s, 0, m.start) \o AssignRemove(From(s, AssignTail(s, m.vend)), key, pct)

\* s.rstrip(';')
RECURSIVE RStripSemi(_)
RStripSemi(s) ==
    IF Len(s) > 0 /\ s[Len(s)] = ";" THEN RStripSemi(SubSeq(s, 1, Len(s) - 1)) ELSE s

\* whether the style value left after the align/width extraction is recorded
StyleRecorded(style_value) == style_value # << >>

\* lines 618-621 and 624-627, m the match of the search: the key is
\* recorded and its assignment removed from the style value
AssignExtracted(acc, key, pct, m) ==
    IF m.start # -1
    THEN [modifiers |-> (key :> Slice(acc.style_value, m.vstart, m.vend)) @@ acc.modifiers,
          style_value |-> Strip(AssignRemove(acc.style_value, key, pct))]
    ELSE acc

AssignExtract(acc, key, pct) ==
    AssignExtracted(acc, key, pct, AssignSearch(acc.style_value, 0, key, pct))

\* lines 631-633
StyleRecord(modifiers, style_value) ==
    IF StyleRecorded(style_value) THEN (N_style :> style_value) @@ modifiers
    ELSE modifiers

\* line 630
StyleStripped(acc) == StyleRecord(acc.modifiers, Strip(RStripSemi(acc.style_value)))

\* lines 613-635: the entries a modifier adds to the dict
ModifierRecord(modifiers, modifier_name, modifier_value) ==
    IF modifier_name = N_style
    THEN StyleStripped(
             AssignExtract(
                 AssignExtract([modifiers |-> modifiers, style_value |-> modifier_value],
                               N_align, FALSE),
                 N_width, TRUE))
    ELSE (modifier_name :> modifier_value) @@ modifiers

\* lines 594-642, r the result of the brace scan: one modifier consumed
RECURSIVE ModifierLoop(_, _, _, _)
ModifierFound(content, modifiers, modifier_name, brace_start, r) ==
    IF r.depth # 0
    THEN [modifiers |-> modifiers, remaining |-> content,
          err |-> SyntaxError("Unmatched brace in modifier", 0, -1)]
    ELSE ModifierLoop(content, LStripFrom(content, r.pos),
                      ModifierRecord(modifiers, modifier_name,
                                     Slice(content, brace_start + 1, r.pos - 1)),
                      TRUE)

ModifierNamed(content, pos, modifiers, first_modifier_found, modifier_name) ==
    IF ~(pos < Len(content)) \/ modifier_name = << >>
    THEN [modifiers |-> modifiers,
          remaining |-> IF first_modifier_found THEN From(content, pos) ELSE content,
          err |-> NoError]
    ELSE ModifierFound(content, modifiers, modifier_name, pos + Len(modifier_name) + 1,
                       BraceScan(content, pos + Len(modifier_name) + 2, 1))

\* the while loop over the leading modifiers
ModifierLoop(content, pos, modifiers, first_modifier_found) ==
    ModifierNamed(content, pos, modifiers, first_modifier_found,
                  IF pos < Len(content) THEN ModifierAt(content, pos) ELSE << >>)

modifiers_extract(content) ==
    ModifierLoop(content, LStripFrom(content, 0), EmptyDict, FALSE)

(***************************************************************************)
(* Parser.content_processRecursive                                         *)
(***************************************************************************)
ASTNode(directive, modifiers, content, children, line_number) ==
    [directive |-> directive, modifiers |-> modifiers, content |-> content,
     children |-> children, line_number |-> line_number]

\* a scan that gives up the rest of the content after an unregistered token
UnregisteredGiveUp(processed, match_start, match_end) == Len(processed)

\* line 496: where the scan resumes after a token whose name is not registered
\* (match_end is pos + match.end(), the position just past the token's brace)
UnregisteredResume(processed, match_start, match_end) == match_end

\* a splice that loses the character that follows the span
SpliceLossy(processed, match_start, placeholder, brace_pos) ==
    Slice(processed, 0, match_start) \o placeholder \o From(processed, brace_pos + 1)

\* line 532: the content with the consumed span replaced by the placeholder
Splice(processed, match_start, placeholder, brace_pos) ==
    Slice(processed, 0, match_start) \o placeholder \o From(processed, brace_pos)

\* a scan that resumes where the placeholder starts
PlaceholderRescan(match_start, placeholder) == match_start

\* line 535: where the scan resumes after a placeholder was spliced in
PlaceholderResume(match_start, placeholder) == match_start + Len(placeholder)

RECURSIVE content_processRecursive(_, _)
RECURSIVE NestedLoop(_, _, _, _, _, _)

\* lines 510-535, nested the processed interior of the span that starts at
\* match_start and ends before brace_pos
NestedChild(processed, children, child_index, modifiers, line_num, directive_name, match_start, brace_pos, nested) ==
    IF nested.err # NoError
    THEN [content |-> processed, children |-> children, modifiers |-> modifiers,
          err |-> nested.err]
    ELSE NestedLoop(Splice(processed, match_start, placeHolder_make(child_index),
                           brace_pos),
                    PlaceholderResume(match_start, placeHolder_make(child_index)),
                    Append(children, ASTNode(directive_name, nested.modifiers,
                                             nested.content, nested.children, line_num)),
                    child_index + 1, modifiers, line_num)

\* lines 499-510, r the result of the brace scan
NestedSpan(processed, children, child_index, modifiers, line_num, directive_name, match_start, brace_start, r) ==
    IF r.depth # 0
    THEN [content |-> processed, children |-> children, modifiers |-> modifiers,
          err |-> SyntaxError("Unmatched brace in nested directive", line_num, -1)]
    ELSE NestedChild(processed, children, child_index, modifiers, line_num,
                     directive_name, match_start, r.pos,
                     content_processRecursive(Slice(processed, brace_start + 1, r.pos - 1),
                                              line_num))

\* lines 485-497, m the match of the search
NestedMatch(processed, pos, children, child_index, modifiers, line_num, m) ==
    IF ~(pos < Len(processed)) \/ m.start = -1
    THEN [content |-> processed, children |-> children, modifiers |-> modifiers,
          err |-> NoError]
    ELSE IF ~IsRegistered(Slice(processed, m.start + 1, m.end - 1))
    THEN NestedLoop(processed, UnregisteredResume(processed, m.start, m.end),
                    children, child_index, modifiers, line_num)
    ELSE NestedSpan(processed, children, child_index, modifiers, line_num,
                    Slice(processed, m.start + 1, m.end - 1), m.start, m.end - 1,
                    BraceScan(processed, m.end, 1))

\* the while loop over the nested directives (lines 483-536)
NestedLoop(processed, pos, children, child_index, modifiers, line_num) ==
    NestedMatch(processed, pos, children, child_index, modifiers, line_num,
                DirectiveSearch(processed, pos))

\* lines 476-481, extracted the result of modifiers_extract
ContentExtracted(content, line_num, extracted) ==
    IF extracted.err # NoError
    THEN [content |-> content, children |-> << >>, modifiers |-> EmptyDict,
          err |-> extracted.err]
    ELSE NestedLoop(extracted.remaining, 0, << >>, 0, extracted.modifiers, line_num)

content_processRecursive(content, line_num) ==
    ContentExtracted(content, line_num, modifiers_extract(content))

(***************************************************************************)
(* Parser.directive_find                                                   *)
(***************************************************************************)
\* line 395: search_pos = pos + match.end(), where pos = search_pos +
\* match.start() and match.start(), match.end() are offsets in source[search_pos:]
FindResume(search_pos, match_start, match_end) ==
    (search_pos + match_start) + match_end

None == [name |-> << >>, position |-> -1]

RECURSIVE directive_find(_, _)
directive_find(s, search_pos) ==
    IF ~(search_pos < Len(s)) THEN None
    ELSE LET m == DirectiveSearch(s, search_pos)
             directive == Slice(s, m.start + 1, m.end - 1)
         IN  IF m.start = -1 THEN None
             ELSE IF IsRegistered(directive)
             THEN [name |-> directive, position |-> m.start]
             ELSE directive_find(s, FindResume(search_pos, m.start - search_pos,
                                               m.end - search_pos))

(***************************************************************************)
(* Compiler.codeblocks_expand and Compiler.escapes_expand                  *)
(***************************************************************************)
RECURSIVE DigitsEnd(_, _)
DigitsEnd(s, p) == IF p < Len(s) /\ At(s, p) \in Digits THEN DigitsEnd(s, p + 1) ELSE p

\* int(text) of a run of decimal digits
RECURSIVE StrToInt(_)
StrToInt(ds) ==
    IF ds = << >> THEN 0
    ELSE 10 * StrToInt(SubSeq(ds, 1, Len(ds) - 1))
         + (CHOOSE n \in 0..9 : IntToStr(n) = << ds[Len(ds)] >>)

\* the pattern prefix (\d+) NUL matched at p: the end of the match, or -1
PlaceholderAt(s, p, prefix) ==
    IF ~StartsWith(s, p, prefix) THEN -1
    ELSE LET e == DigitsEnd(s, p + Len(prefix))
         IN  IF e > p + Len(prefix) /\ e < Len(s) /\ At(s, e) = NUL THEN e + 1 ELSE -1

\* whether s holds a placeholder of that kind
HasPlaceholder(s, prefix) ==
    \E i \in 0..(Len(s) - 1) : PlaceholderAt(s, i, prefix) # -1

\* html.escape
RECURSIVE html_escape(_)
html_escape(t) ==
    IF t = << >> THEN << >>
    ELSE (IF Head(t) = "&" THEN <<"&","a","m","p",";">>
          ELSE IF Head(t) = "<" THEN <<"&","l","t",";">>
          ELSE IF Head(t) = ">" THEN <<"&","g","t",";">>
          ELSE IF Head(t) = "\"" THEN <<"&","q","u","o","t",";">>
          ELSE IF Head(t) = "'" THEN <<"&","#","x","2","7",";">>
          ELSE << Head(t) >>) \o html_escape(Tail(t))

\* pygments.highlight: the external highlighter.  Its token markup is left
\* out: the code text, HTML-escaped, inside the formatter's wrapper.
highlight(code_content) ==
    <<"<div class=\"highlight\"><pre>">> \o html_escape(code_content) \o <<"</pre></div>">>

\* the end of re.match(r'^\s*\.syntax\{([^}]+)\}\s*', raw_content), or -1
RECURSIVE NotBraceEnd(_, _)
NotBraceEnd(s, p) == IF p < Len(s) /\ At(s, p) # "}" THEN NotBraceEnd(s, p + 1) ELSE p

SyntaxMatchEnd(raw_content) ==
    LET a == LStripFrom(raw_content, 0)
        b == a + Len(SyntaxOpen)
        e == NotBraceEnd(raw_content, b)
    IN  IF StartsWith(raw_content, a, SyntaxOpen) /\ e > b /\ e < Len(raw_content)
        THEN LStripFrom(raw_content, e + 1) ELSE -1

\* expand_code_placeholder, for an id the table holds
expand_code_placeholder(raw_content) ==
    IF SyntaxMatchEnd(raw_content) # -1
    THEN highlight(From(raw_content, SyntaxMatchEnd(raw_content)))
    ELSE highlight(raw_content)

\* expand_escape_placeholder, for an id the table holds
expand_escape_placeholder(escaped_content) == html_escape(escaped_content)

\* re.sub over the placeholders of one kind; a placeholder whose id the table
\* does not hold is left as it is
RECURSIVE ExpandLoop(_, _, _, _)
ExpandLoop(content, p, table, kind) ==
    LET prefix == IF kind = "CODE" THEN CodePrefix ELSE EscapePrefix
        next == Least({i \in p..(Len(content) - 1) :
                         PlaceholderAt(content, i, prefix) # -1}, Len(content))
        e == PlaceholderAt(content, next, prefix)
        id == StrToInt(Slice(content, next + Len(prefix), e - 1))
    IN  IF next = Len(content) THEN From(content, p)
        ELSE Slice(content, p, next)
             \o (IF id \notin DOMAIN table THEN Slice(content, next, e)
                 ELSE IF kind = "CODE" THEN expand_code_placeholder(table[id])
                 ELSE expand_escape_placeholder(table[id]))
             \o ExpandLoop(content, e, table, kind)

codeblocks_expand(content, protected_code_blocks_) ==
    ExpandLoop(content, 0, protected_code_blocks_, "CODE")

escapes_expand(content, escaped_sequences_) ==
    ExpandLoop(content, 0, escaped_sequences_, "ESCAPE")

(***************************************************************************)
(* The directive handlers (directives.py).  A handler gets the node with   *)
(* its substituted content and the compiler c, and gives the HTML and the  *)
(* compiler with its counters updated.                                     *)
(***************************************************************************)
Blank(content) == Strip(content) = << >>

\* node.modifiers.get(key, '')
ModGet(node, key) == IF key \in DOMAIN node.modifiers THEN node.modifiers[key] ELSE << >>

\* f' style="{style}"' if style else ''
StyleAttr(node) ==
    IF ModGet(node, N_style) # << >>
    THEN <<" style=\"">> \o ModGet(node, N_style) \o <<"\"">> ELSE << >>

\* Compiler.watermarks_generate: HTML from the theme configuration
watermarks_generate == <<"<img class=\"watermark\">">>

\* lines 100-106: the content of the first title child
TitleContent(node) ==
    LET ts == {i \in 1..Len(node.children) : node.children[i].directive = N_title}
    IN  IF ts = {} THEN << >>
        ELSE node.children[CHOOSE i \in ts : \A j \in ts : i <= j].content

slide_handler(node, c) ==
    IF Blank(node.content) THEN [html |-> << >>, c |-> c]
    ELSE LET slide_num == IntToStr(c.slide_count)
             align == ModGet(node, N_align)
             css_classes == <<"container slide">>
                            \o (IF align # << >> THEN <<" align-">> \o align ELSE << >>)
             user_style == ModGet(node, N_style)
             style_attr == IF user_style # << >>
                           THEN <<"style=\"display:none; ">> \o user_style \o <<"\"">>
                           ELSE <<"style=\"display:none;\"">>
         IN  [html |-> <<"\n                <div id=\"slide-">> \o slide_num
                       \o <<"-title\" style=\"display: none;\">\n                    ">>
                       \o TitleContent(node)
                       \o <<"\n                </div>\n                <div class=\"">>
                       \o css_classes \o <<"\" id=\"slide-">>
                       \o slide_num \o <<"\" name=\"slide-">> \o slide_num \o <<"\" ">>
                       \o style_attr \o <<">\n                    ">>
                       \o watermarks_generate \o <<"\n                    ">>
                       \o node.content \o <<"\n                </div>\n            ">>,
              c |-> c]

title_handler(node, c) == [html |-> << >>, c |-> c]

\* the branch that wraps column divs (lines 147-196) is not modelled: no
\* document of the model holds a column directive or its markup
body_handler(node, c) == [html |-> node.content, c |-> c]

\* make_html_wrapper(tag)
html_wrapper(tag, node, c) ==
    [html |-> <<"<", tag>> \o StyleAttr(node) \o <<">">> \o node.content
              \o <<"</", tag, ">">>,
     c |-> c]

typewriter_handler(node, c) ==
    LET slide_num == c.slide_count
        n == IF slide_num \in DOMAIN c.typewriter_counters
             THEN c.typewriter_counters[slide_num] + 1 ELSE 1
    IN  IF Blank(node.content) THEN [html |-> << >>, c |-> c]
        ELSE [html |-> <<"<pre id=\"typewriter-">> \o IntToStr(slide_num) \o <<"-">>
                       \o IntToStr(n) \o <<"\"">> \o StyleAttr(node) \o <<">">>
                       \o node.content \o <<"</pre>">>,
              c |-> [c EXCEPT !.typewriter_counters = (slide_num :> n) @@ @]]

\* a snippet handler that numbers the element and does not keep the count
snippet_handlerUncounted(node, c) ==
    LET slide_num == c.slide_count
        n == IF slide_num \in DOMAIN c.snippet_counters
             THEN c.snippet_counters[slide_num] + 1 ELSE 1
    IN  IF Blank(node.content) THEN [html |-> << >>, c |-> c]
        ELSE [html |-> <<"<div class=\"snippet\" id=\"order-">> \o IntToStr(slide_num)
                       \o <<"-">> \o IntToStr(n) \o <<"\"">> \o StyleAttr(node) \o <<">">>
                       \o node.content \o <<"</div>">>,
              c |-> c]

snippet_handler(node, c) ==
    LET slide_num == c.slide_count
        n == IF slide_num \in DOMAIN c.snippet_counters
             THEN c.snippet_counters[slide_num] + 1 ELSE 1
    IN  IF Blank(node.content) THEN [html |-> << >>, c |-> c]
        ELSE [html |-> <<"<div class=\"snippet\" id=\"order-">> \o IntToStr(slide_num)
                       \o <<"-">> \o IntToStr(n) \o <<"\"">> \o StyleAttr(node) \o <<">">>
                       \o node.content \o <<"</div>">>,
              c |-> [c EXCEPT !.snippet_counters = (slide_num :> n) @@ @]]

column_handler(node, c) ==
    LET a == IF N_align \in DOMAIN node.modifiers
             THEN <<"text-align: ">> \o node.modifiers[N_align] \o <<"; ">> ELSE << >>
        w == IF N_width \in DOMAIN node.modifiers
             THEN <<"width: ">> \o node.modifiers[N_width] ELSE <<"flex: 1">>
        st == IF N_style \in DOMAIN node.modifiers
              THEN <<"; ">> \o node.modifiers[N_style] ELSE << >>
    IN  [html |-> <<"<div class=\"column\" style=\"">> \o a \o w \o st \o <<"\">">>
                  \o node.content \o <<"</div>">>,
         c |-> c]

\* font_handler and cowpy_handler: the external figlet and cowsay renderers,
\* whose drawing of the text is left out
ascii_handler(node, c) ==
    [html |-> <<"<pre>", "<ascii-art>">> \o node.content \o <<"</ascii-art>", "</pre>">>,
     c |-> c]

code_handler(node, c) ==
    IF N_syntax \in DOMAIN node.modifiers
    THEN [html |-> highlight(node.content), c |-> c]
    ELSE [html |-> <<"<code">> \o StyleAttr(node) \o <<">">> \o node.content
                   \o <<"</code>">>,
          c |-> c]

\* comment_handler, style_handler, class_handler, syntax_handler and
\* meta_handler (whose YAML configuration is not modelled) give no HTML
empty_handler(node, c) == [html |-> << >>, c |-> c]

\* a node without a handler left out of the output
fallbackDropped(node, c) == [html |-> << >>, c |-> c]

\* lines 281-283: no handler
fallback(node, c) ==
    [html |-> <<"<div class=\"directive-">> \o node.directive \o <<"\">">>
              \o node.content \o <<"</div>">>,
     c |-> c]

\* handler(node, self)
Apply(handler, node, c) ==
    CASE handler = "slide_handler" -> slide_handler(node, c)
      [] handler = "title_handler" -> title_handler(node, c)
      [] handler = "body_handler" -> body_handler(node, c)
      [] handler \in {"strong", "em", "tt", "u", "h1", "h2", "h3", "h4", "h5", "h6"}
            -> html_wrapper(handler, node, c)
      [] handler = "typewriter_handler" -> typewriter_handler(node, c)
      [] handler = "snippet_handler" -> snippet_handler(node, c)
      [] handler = "column_handler" -> column_handler(node, c)
      [] handler \in {"font_handler", "cowpy_handler"} -> ascii_handler(node, c)
      [] handler = "code_handler" -> code_handler(node, c)
      [] handler = "None" -> fallback(node, c)
      [] OTHER -> empty_handler(node, c)

(***************************************************************************)
(* Compiler.node_compile                                                   *)
(***************************************************************************)
\* lines 256-261: the placeholders replaced one index after the other
RECURSIVE SubstituteChildren(_, _, _)
SubstituteChildren(content_with_children, compiled_children, i) ==
    IF i >= Len(compiled_children) THEN content_with_children
    ELSE SubstituteChildren(
             Replace(content_with_children, placeHolder_make(i), compiled_children[i + 1]),
             compiled_children, i + 1)

\* line 246
IsRealSlide(node) ==
    node.directive = N_slide /\ (node.children # << >> \/ ~Blank(node.content))

RECURSIVE node_compile(_, _)
RECURSIVE ChildrenCompile(_, _, _, _)

\* what a call has done to the i-th child object, then on to the next child
ChildCompiled(children, i, compiled, r) ==
    ChildrenCompile([children EXCEPT ![i] = r.node], i + 1, Append(compiled, r.html), r.c)

\* lines 250-253; compiled is the list compiled_children, children the child
\* objects as the calls leave them
ChildrenCompile(children, i, compiled, c) ==
    IF i > Len(children) THEN [compiled |-> compiled, c |-> c, children |-> children]
    ELSE ChildCompiled(children, i, compiled, node_compile(children[i], c))

\* node.content = original_content, with nothing put back
ContentKept(node, original_content) == node

\* line 286: node.content = original_content
ContentRestored(node, original_content) == [node EXCEPT !.content = original_content]

\* c.log is a history of the calls: for every node compiled, in the order
\* the handlers run (children before their parent), its directive, its
\* content, the HTML of its children, the content after step 2, the number
\* of nodes of its subtree, slide_count at the call, when the children are
\* compiled and when the handler runs, and the HTML the handler gave
Logged(r, node_with_content, node, kids, substituted, c, c1) ==
    [html |-> r.html,
     node |-> ContentRestored(node_with_content, node.content),
     c |-> [r.c EXCEPT !.log = Append(@, [directive |-> node.directive,
                                          content |-> node.content,
                                          compiled_children |-> kids.compiled,
                                          substituted |-> substituted,
                                          size |-> Len(kids.c.log) - Len(c.log) + 1,
                                          count_call |-> c.slide_count,
                                          count_children |-> c1.slide_count,
                                          count_handler |-> kids.c.slide_count,
                                          counters |-> [o |-> r.c.snippet_counters,
                                                        typewriter |-> r.c.typewriter_counters],
                                          html |-> r.html])]]

\* lines 275-283: the handler gets the node object with its content overwritten
WithContent(node_with_content, node, kids, substituted, c, c1) ==
    Logged(Apply(registry_get(node.directive), node_with_content, kids.c),
           node_with_content, node, kids, substituted, c, c1)

\* lines 263-273: node.content = content_with_children, on the node object
\* whose children the calls of lines 250-253 have left
Handled(node, kids, substituted, c, c1) ==
    WithContent([node EXCEPT !.children = kids.children,
                             !.content =
                     escapes_expand(codeblocks_expand(substituted, c.protected_code_blocks),
                                    c.escaped_sequences)],
                node, kids, substituted, c, c1)

Substituted(node, kids, c, c1) ==
    Handled(node, kids, SubstituteChildren(node.content, kids.compiled, 0), c, c1)

Counted(node, c, c1) ==
    Substituted(node, ChildrenCompile(node.children, 1, << >>, c1), c, c1)

node_compile(node, c) ==
    Counted(node, c, IF IsRealSlide(node) THEN [c EXCEPT !.slide_count = @ + 1] ELSE c)

(***************************************************************************)
(* The documents the parser is run on: every sequence of at most MaxFrags  *)
(* fragments of one family, as written and with the braces still open at   *)
(* its end closed, and the sample documents.                               *)
(***************************************************************************)
MaxFrags == 4
MaxChildren == 11

\* the token of a directive
Dir(name) == <<".">> \o name \o <<"{">>

F_bf == Dir(N_bf)
F_em == Dir(N_em)
F_tt == Dir(N_tt)
F_xx == <<".","x","x","{">>
F_style == Dir(N_style)
F_class == Dir(N_class)
F_close == <<"}">>
F_escBf == <<BSL, ".">> \o N_bf
F_escOpen == <<BSL, "{">>
F_escClose == <<BSL, "}">>

\* nesting, a name that is not registered, text, lines
FamNesting == <<F_bf, F_xx, F_close, <<"a">>, <<"\n">> >>
\* leading modifiers
FamModifiers == <<F_bf, <<" ">> \o F_style, F_class, F_close, <<" ", "a">> >>
\* backslash escapes
FamEscapes == <<F_tt, F_escBf, F_escOpen, F_escClose, F_close, <<BSL>> >>
\* code blocks
FamCode == <<CodeOpen, SyntaxOpen \o <<"p", "}">>, F_bf, F_close, <<" ">> >>

Families == {FamNesting, FamModifiers, FamEscapes, FamCode}

FragSeqs(fam) ==
    UNION {[1..k -> {fam[i] : i \in 1..Len(fam)}] : k \in 0..MaxFrags}

\* the number of braces still open at the end of s
RECURSIVE OpenDepth(_, _, _)
OpenDepth(s, i, depth) ==
    IF i > Len(s) THEN depth
    ELSE OpenDepth(s, i + 1,
                   IF s[i] = "{" THEN depth + 1
                   ELSE IF s[i] = "}" /\ depth > 0 THEN depth - 1 ELSE depth)

AutoClose(s) == s \o [k \in 1..OpenDepth(s, 1, 0) |-> "}"]

GeneratedDocs ==
    UNION {{Flatten(fs) : fs \in FragSeqs(fam)} : fam \in Families}

\* .tt{\.bf\{bold\}}
DocEscaped ==
    F_tt \o F_escBf \o F_escOpen \o <<"b","o","l","d">> \o F_escClose \o F_close
\* .tt{\.bf\{a\} \.em\{b\}}
DocTwoEscapes ==
    F_tt \o F_escBf \o F_escOpen \o <<"a">> \o F_escClose \o <<" ", BSL, ".">> \o N_em
         \o F_escOpen \o <<"b">> \o F_escClose \o F_close
\* .bf{\.style\{a\}b}
DocEscapedModifier ==
    F_bf \o <<BSL, ".">> \o N_style \o F_escOpen \o <<"a">> \o F_escClose \o <<"b","}">>
\* .slide{.style{} a}
DocEmptyStyle == Dir(N_slide) \o F_style \o <<"}"," ","a","}">>
\* .code{.syntax{p}.bf{a}}.code{.syntax{p}b}
DocTwoCode ==
    CodeOpen \o SyntaxOpen \o <<"p","}">> \o F_bf \o <<"a","}","}">>
        \o CodeOpen \o SyntaxOpen \o <<"p","}","b","}">>
\* .bf{.slide{.title{.em{a}.em{b}}x}.tt{c}}
DocTitle ==
    F_bf \o Dir(N_slide) \o Dir(N_title) \o F_em \o <<"a","}">> \o F_em
         \o <<"b","}","}","x","}">> \o F_tt \o <<"c","}","}">>
\* .bf{.em{a}.em{a} ... .em{a}} with MaxChildren children
DocManyChildren ==
    F_bf \o Flatten([i \in 1..MaxChildren |-> F_em \o <<"a","}">>]) \o <<"}">>
\* .slide{.o{a}.typewriter{b}}.slide{.o{c}}
DocSlides ==
    Dir(N_slide) \o Dir(N_o) \o <<"a","}">> \o Dir(N_typewriter) \o <<"b","}","}">>
        \o Dir(N_slide) \o Dir(N_o) \o <<"c","}","}">>

\* .bf{.xx{.em{a}}.tt{b}}
DocUnregistered ==
    F_bf \o F_xx \o F_em \o <<"a","}","}">> \o F_tt \o <<"b","}","}">>

\* .tt{\.bf\{\.em\{x\}\}}
DocNestedEscape ==
    F_tt \o F_escBf \o F_escOpen \o <<BSL, ".">> \o N_em \o F_escOpen \o <<"x">>
         \o F_escClose \o F_escClose \o F_close

\* .slide{.o{a}.slide{x}.o{b}}
DocNestedSlide ==
    Dir(N_slide) \o Dir(N_o) \o <<"a","}">> \o Dir(N_slide) \o <<"x","}">>
        \o Dir(N_o) \o <<"b","}","}">>

\* .slide{.title{a}}.slide{b}
DocTitleOnlySlide ==
    Dir(N_slide) \o Dir(N_title) \o <<"a","}","}">> \o Dir(N_slide) \o <<"b","}">>

\* .bf{.style{valign=l}x}
DocStyleInWord ==
    F_bf \o F_style \o <<"v","a","l","i","g","n","=","l","}","x","}">>
\* .bf{.style{c;align = l; width=5%;}x}
DocStyleAssign ==
    F_bf \o F_style \o <<"c",";","a","l","i","g","n"," ","=", " ","l",";"," ",
                          "w","i","d","t","h","=","5","%",";","}","x","}">>

\* .tt{\.bf\{\{x}
DocUnbalancedEscape == F_tt \o F_escBf \o F_escOpen \o F_escOpen \o <<"x","}">>
\* .tt{a \.bf b}
DocEscapeNoBrace == F_tt \o <<"a"," ">> \o F_escBf \o <<" ","b","}">>

\* .tt{a\\b}
DocLineBreak == F_tt \o <<"a", BSL, BSL, "b", "}">>
\* .tt{a\\\\\b}: five backslashes
DocBackslashRun == F_tt \o <<"a", BSL, BSL, BSL, BSL, BSL, "b", "}">>
\* .tt{\.bf\{a\\b\}c\\d}
DocEscapedBreak ==
    F_tt \o F_escBf \o F_escOpen \o <<"a", BSL, BSL, "b">> \o F_escClose
         \o <<"c", BSL, BSL, "d", "}">>

\* .code{.syntax{p}a\\b}
DocCodeBackslash == CodeOpen \o SyntaxOpen \o <<"p", "}", "a", BSL, BSL, "b", "}">>
\* .code{.syntax{p}\.bf\{x\}}
DocCodeEscape ==
    CodeOpen \o SyntaxOpen \o <<"p", "}">> \o F_escBf \o F_escOpen \o <<"x">>
             \o F_escClose \o <<"}">>

\* .bf a
DocMissingBrace == <<".">> \o N_bf \o <<" ", "a">>
\* .bf{a}\n.em
DocMissingBraceAfter == F_bf \o <<"a", "}", "\n", ".">> \o N_em

\* .slide{}
DocEmptySlide == Dir(N_slide) \o <<"}">>
\* blanks, newlines and a tab, as in tests/test_parser_basic.py
DocWhitespace == <<" ", " ", "\n", "\n", " ", "\t", " ">>

\* .slide{.class{} a}
DocEmptyClass == Dir(N_slide) \o F_class \o <<"}"," ","a","}">>

\* .slide{.title{.em{a}}x}
DocTitleChild ==
    Dir(N_slide) \o Dir(N_title) \o F_em \o <<"a","}","}","x","}">>
\* .slide{.o{.o{a}b}.o{c}}
DocNestedSnippet ==
    Dir(N_slide) \o Dir(N_o) \o Dir(N_o) \o <<"a","}","b","}">>
                 \o Dir(N_o) \o <<"c","}","}">>

\* .slide{.o{a}.o{ }.o{b}.typewriter{}}
DocBlankSnippet ==
    Dir(N_slide) \o Dir(N_o) \o <<"a","}">> \o Dir(N_o) \o <<" ","}">>
                 \o Dir(N_o) \o <<"b","}">> \o Dir(N_typewriter) \o <<"}","}">>

SampleDocs ==
    {DocBlankSnippet, DocTitleChild, DocNestedSnippet, DocEmptyClass, DocEmptySlide, DocWhitespace, DocMissingBrace, DocMissingBraceAfter, DocCodeBackslash, DocCodeEscape, DocLineBreak, DocBackslashRun, DocEscapedBreak, DocUnbalancedEscape, DocEscapeNoBrace, DocStyleInWord, DocStyleAssign, DocNestedSlide, DocTitleOnlySlide, DocEscaped, DocTwoEscapes, DocEscapedModifier, DocEmptyStyle, DocTwoCode,
     DocTitle, DocManyChildren, DocSlides, DocUnregistered, DocNestedEscape}

Documents ==
    GeneratedDocs \cup {AutoClose(d) : d \in GeneratedDocs} \cup SampleDocs

(***************************************************************************)
(* State                                                                   *)
(***************************************************************************)
VARIABLES
    pc,                     \* where the pipeline stands
    original,               \* the text the Parser was constructed with
    source,                 \* Parser.source
    position,               \* Parser.position
    line_number,            \* Parser.line_number
    nodes,                  \* the list parse() builds and returns
    escaped_sequences,      \* Parser.escaped_sequences
    protected_code_blocks,  \* Parser.protected_code_blocks
    error,                  \* the SyntaxError raised, or NoError
    escRuns,                \* history: the source ranges escapes_protect replaced
    codeBlocks,             \* history: the .code{ blocks codeblocks_protect handled
    spans,                  \* history: token, brace and closing brace of each top-level node
    lastFind,               \* history: the last call of directive_find and its result
    caller,                 \* history: who constructed the Compiler
    compiler,               \* the Compiler object
    node_index,             \* the index of ast_compile's loop over the nodes
    html_parts,             \* html_parts of ast_compile
    html,                   \* the HTML ast_compile returns
    handler,                \* history: what DirectiveRegistry.get gave for a name looked up alone
    returned                \* history: the HTML of every call of ast_compile that returned

parserVars == <<original, source, position, line_number, nodes, escaped_sequences,
                protected_code_blocks, error, escRuns, codeBlocks, spans, lastFind>>
compVars == <<caller, compiler, node_index, html_parts, html, handler, returned>>
vars == <<pc, parserVars, compVars>>

\* Compiler.__init__
Compiler(protected_code_blocks_, escaped_sequences_) ==
    [protected_code_blocks |-> protected_code_blocks_,
     escaped_sequences |-> escaped_sequences_,
     slide_count |-> 0,
     snippet_counters |-> EmptyDict,
     typewriter_counters |-> EmptyDict,
     log |-> << >>]

NoCompiler == [slide_count |-> -1]

NoFind == [from |-> -1, found |-> -1]

\* Parser.__init__
Init ==
    /\ pc = "start"
    /\ original \in Documents
    /\ source = original
    /\ position = 0
    /\ line_number = 1
    /\ nodes = << >>
    /\ escaped_sequences = EmptyDict
    /\ protected_code_blocks = EmptyDict
    /\ error = NoError
    /\ escRuns = << >>
    /\ codeBlocks = << >>
    /\ spans = << >>
    /\ lastFind = NoFind
    /\ caller = "none"
    /\ compiler = NoCompiler
    /\ node_index = 0
    /\ html_parts = << >>
    /\ html = << >>
    /\ handler = "unset"
    /\ returned = << >>

(***************************************************************************)
(* Parser.parse                                                            *)
(***************************************************************************)
\* line 288
EscapesProtect ==
    /\ pc = "start"
    /\ LET r == escapes_protect(source)
       IN  /\ source' = r.source
           /\ escaped_sequences' = r.escaped_sequences
           /\ escRuns' = r.runs
    /\ pc' = "escaped"
    /\ UNCHANGED <<compVars, original, position, line_number, nodes, protected_code_blocks,
                   error, codeBlocks, spans, lastFind>>

LineBreak == <<"<", "b", "r", ">">>

\* line 291
LineBreaks ==
    /\ pc = "escaped"
    /\ source' = Replace(source, <<BSL, BSL>>, LineBreak)
    /\ pc' = "breaks"
    /\ UNCHANGED <<compVars, original, position, line_number, nodes, escaped_sequences,
                   protected_code_blocks, error, escRuns, codeBlocks, spans, lastFind>>

\* line 294
CodeblocksProtect ==
    /\ pc = "breaks"
    /\ LET r == codeblocks_protect(source, line_number)
       IN  /\ r.err = NoError
           /\ source' = r.source
           /\ protected_code_blocks' = r.protected_code_blocks
           /\ codeBlocks' = r.blocks
    /\ pc' = "protected"
    /\ UNCHANGED <<compVars, original, position, line_number, nodes, escaped_sequences,
                   error, escRuns, spans, lastFind>>

\* line 294, brace_findMatching raising inside codeblocks_protect
CodeblocksFail ==
    /\ pc = "breaks"
    /\ LET r == codeblocks_protect(source, line_number)
       IN  /\ r.err # NoError
           /\ error' = r.err
    /\ pc' = "failed"
    /\ UNCHANGED <<compVars, original, source, position, line_number, nodes, escaped_sequences,
                   protected_code_blocks, escRuns, codeBlocks, spans, lastFind>>

\* lines 297-302
StripSource ==
    /\ pc = "protected"
    /\ source' = Strip(source)
    /\ pc' = IF Strip(source) = << >> THEN "parsed" ELSE "scan"
    /\ position' = 0
    /\ line_number' = 1
    /\ UNCHANGED <<compVars, original, nodes, escaped_sequences, protected_code_blocks, error,
                   escRuns, codeBlocks, spans, lastFind>>

\* lines 306-309
RECURSIVE SkipWhitespace(_, _, _)
SkipWhitespace(s, pos, line) ==
    IF pos < Len(s) /\ IsSpace(At(s, pos))
    THEN SkipWhitespace(s, pos + 1, IF At(s, pos) = "\n" THEN line + 1 ELSE line)
    ELSE [position |-> pos, line_number |-> line]

\* lines 327-335, close the result of brace_findMatching
IterationClosed(s, w, match, brace_pos, close) ==
    [w |-> w, match |-> match, brace_pos |-> brace_pos, close |-> close,
     processed |-> IF close.pos = -1
                   THEN [content |-> << >>, children |-> << >>,
                         modifiers |-> EmptyDict, err |-> NoError]
                   ELSE content_processRecursive(Slice(s, brace_pos + 1, close.pos),
                                                 w.line_number)]

\* lines 322-328
IterationBraced(s, w, match, brace_pos) ==
    IterationClosed(s, w, match, brace_pos,
                    IF brace_pos = -1 THEN [pos |-> -1, err |-> NoError]
                    ELSE brace_findMatching(s, brace_pos, w.line_number))

\* lines 315-322
IterationFound(s, w, match) ==
    IterationBraced(s, w, match,
                    IF match = None THEN -1 ELSE Find(s, <<"{">>, match.position))

\* lines 311-315
IterationScanned(s, w) ==
    IterationFound(s, w, IF w.position >= Len(s) THEN None
                         ELSE directive_find(s, w.position))

\* one iteration of the while loop of parse (lines 304-350): what it finds
Iteration(s, pos, line) == IterationScanned(s, SkipWhitespace(s, pos, line))

ParseEndStep(it) ==
    /\ \/ ~(position < Len(source))
       \/ it.w.position >= Len(source)
       \/ it.match = None
    /\ position' = IF position < Len(source) THEN it.w.position ELSE position
    /\ line_number' = IF position < Len(source) THEN it.w.line_number ELSE line_number
    /\ lastFind' = IF position < Len(source) /\ it.w.position < Len(source)
                   THEN [from |-> it.w.position, found |-> -1]
                   ELSE lastFind

\* the loop ends: nothing but whitespace is left, or directive_find found nothing
ParseEnd ==
    /\ pc = "scan"
    /\ ParseEndStep(Iteration(source, position, line_number))
    /\ pc' = "parsed"
    /\ UNCHANGED <<compVars, original, source, nodes, escaped_sequences,
                   protected_code_blocks, error, escRuns, codeBlocks, spans>>

ParseDirectiveStep(it) ==
    /\ it.w.position < Len(source)
    /\ it.match # None
    /\ it.brace_pos # -1
    /\ it.close.err = NoError
    /\ it.processed.err = NoError
    /\ nodes' = Append(nodes, ASTNode(it.match.name, it.processed.modifiers,
                                      it.processed.content,
                                      it.processed.children, it.w.line_number))
    /\ position' = it.close.pos + 1
    /\ line_number' = it.w.line_number
    /\ lastFind' = [from |-> it.w.position, found |-> it.match.position]
    /\ spans' = Append(spans, [pos |-> it.match.position,
                               brace |-> it.brace_pos, close |-> it.close.pos])

\* an iteration that appends a node
ParseDirective ==
    /\ pc = "scan"
    /\ position < Len(source)
    /\ ParseDirectiveStep(Iteration(source, position, line_number))
    /\ pc' = "scan"
    /\ UNCHANGED <<compVars, original, source, escaped_sequences,
                   protected_code_blocks, error, escRuns, codeBlocks>>

ParseFailStep(it) ==
    /\ it.w.position < Len(source)
    /\ it.match # None
    /\ \/ it.brace_pos = -1
       \/ it.close.err # NoError
       \/ it.processed.err # NoError
    /\ error' = IF it.brace_pos = -1
                THEN Parser_error("Expected '{' after directive",
                                  source, it.w.position, it.w.line_number)
                ELSE IF it.close.err # NoError THEN it.close.err
                ELSE it.processed.err
    /\ position' = it.w.position
    /\ line_number' = it.w.line_number
    /\ lastFind' = [from |-> it.w.position, found |-> it.match.position]

\* an iteration that raises: the list built so far is lost with the frame
ParseFail ==
    /\ pc = "scan"
    /\ position < Len(source)
    /\ ParseFailStep(Iteration(source, position, line_number))
    /\ nodes' = << >>
    /\ pc' = "failed"
    /\ UNCHANGED <<compVars, original, source, escaped_sequences,
                   protected_code_blocks, escRuns, codeBlocks, spans>>

(***************************************************************************)
(* __main__.html_compile, Compiler.compile and Compiler.ast_compile        *)
(***************************************************************************)
\* __main__.py lines 225-227: an empty parse result ends the program
HtmlCompileExit ==
    /\ pc = "parsed"
    /\ nodes = << >>
    /\ pc' = "exit"
    /\ UNCHANGED <<parserVars, compVars>>

\* __main__.py lines 230-235: the Compiler is constructed from the AST alone
HtmlCompile ==
    /\ pc = "parsed"
    /\ nodes # << >>
    /\ caller' = "html_compile"
    /\ compiler' = Compiler(EmptyDict, EmptyDict)
    /\ pc' = "compile"
    /\ UNCHANGED <<parserVars, node_index, html_parts, html, handler, returned>>

\* a Compiler constructed with the parser's tables, as the tests of the
\* repository do (tests/test_parser_escaping.py lines 222-228)
DirectCompile ==
    /\ pc = "parsed"
    /\ caller' = "direct"
    /\ compiler' = Compiler(protected_code_blocks, escaped_sequences)
    /\ pc' = "compile"
    /\ UNCHANGED <<parserVars, node_index, html_parts, html, handler, returned>>

\* ast_compile lines 124-127: one iteration of the loop
AstCompileNode ==
    /\ pc = "compile"
    /\ node_index < Len(nodes)
    /\ LET r == node_compile(nodes[node_index + 1], compiler)
       IN  /\ html_parts' = Append(html_parts, r.html)
           /\ compiler' = r.c
           /\ nodes' = [nodes EXCEPT ![node_index + 1] = r.node]
    /\ node_index' = node_index + 1
    /\ UNCHANGED <<pc, original, source, position, line_number, escaped_sequences,
                   protected_code_blocks, error, escRuns, codeBlocks, spans, lastFind,
                   caller, html, handler, returned>>

\* '\n'.join(html_parts)
RECURSIVE Join(_, _)
Join(parts, sep) ==
    IF parts = << >> THEN << >>
    ELSE IF Len(parts) = 1 THEN parts[1]
    ELSE parts[1] \o sep \o Join(Tail(parts), sep)

\* ast_compile line 129
AstCompileEnd ==
    /\ pc = "compile"
    /\ node_index = Len(nodes)
    /\ html' = Join(html_parts, <<"\n">>)
    /\ returned' = Append(returned, Join(html_parts, <<"\n">>))
    /\ pc' = "compiled"
    /\ UNCHANGED <<parserVars, caller, compiler, node_index, html_parts, handler>>

Next ==
    \/ EscapesProtect
    \/ LineBreaks
    \/ CodeblocksProtect
    \/ CodeblocksFail
    \/ StripSource
    \/ ParseDirective
    \/ ParseFail
    \/ ParseEnd
    \/ HtmlCompileExit
    \/ HtmlCompile
    \/ DirectCompile
    \/ AstCompileNode
    \/ AstCompileEnd

Spec == Init /\ [][Next]_vars

(***************************************************************************)
(* DirectiveRegistry.get called alone, for names that are registered,      *)
(* names that fall under a wildcard and names near them                    *)
(***************************************************************************)
NameStems ==
    {RegistrySpecs[i].name : i \in 1..Len(RegistrySpecs)}
    \cup {<<"f","o","n","t">>, <<"c","o","w","p","y">>, <<"f","o","n","t","-">>,
          <<"c","o","w","p","y","-">>, <<"h">>, <<"h","7">>, <<"x">>, << >>}

NameEndings == {<< >>, <<"a">>, <<"-">>, <<"-","a">>, <<"1">>}

RegistryNames == {stem \o ending : stem \in NameStems, ending \in NameEndings}

\* registry = DirectiveRegistry()
RegistryInit ==
    /\ pc = "registry"
    /\ original \in RegistryNames
    /\ source = original
    /\ position = 0
    /\ line_number = 1
    /\ nodes = << >>
    /\ escaped_sequences = EmptyDict
    /\ protected_code_blocks = EmptyDict
    /\ error = NoError
    /\ escRuns = << >>
    /\ codeBlocks = << >>
    /\ spans = << >>
    /\ lastFind = NoFind
    /\ caller = "none"
    /\ compiler = NoCompiler
    /\ node_index = 0
    /\ html_parts = << >>
    /\ html = << >>
    /\ handler = "unset"
    /\ returned = << >>

\* registry.get(name)
RegistryGet ==
    /\ pc = "registry"
    /\ handler' = registry_get(original)
    /\ pc' = "looked"
    /\ UNCHANGED <<parserVars, caller, compiler, node_index, html_parts, html, returned>>

SpecRegistry == RegistryInit /\ [][RegistryGet]_vars

(***************************************************************************)
(* A Compiler given an AST that its caller has built from ASTNode objects, *)
(* with directive names of its own choice, and ast_compile called on it    *)
(* up to MaxCalls times.  The trees have the form the parser gives: the    *)
(* content of a node holds the placeholders of its children in order.      *)
(***************************************************************************)
MaxCalls == 2

\* a directive name no handler is registered for
UnknownName == <<"x", "x">>

\* the placeholders of n children, one after the other
Placeholders(n) == Flatten([i \in 1..n |-> placeHolder_make(i - 1)])

\* ASTNode(directive=..., content=..., children=[...])
Built(directive, text, children) ==
    ASTNode(directive, EmptyDict, text \o Placeholders(Len(children)), children, 1)

SeqsUpTo2(S) == {<<a>> : a \in S} \cup {<<a, b>> : a \in S, b \in S}

AstLeaves ==
    {Built(d, t, << >>) : d \in {N_o, N_typewriter, UnknownName}, t \in {<< >>, <<"a">>}}
    \cup {Built(N_title, <<"a">>, << >>)}

AstSingles ==
    {Built(d, <<"a">>, <<k>>) : d \in {N_o, UnknownName, N_slide}, k \in AstLeaves}

AstPairs ==
    {Built(d, <<"a">>, <<j, k>>) : d \in {N_o, UnknownName, N_slide},
                                   j \in AstLeaves, k \in AstLeaves}

AstTops ==
    {Built(d, << >>, ks) : d \in {N_slide, UnknownName},
                          ks \in SeqsUpTo2(AstLeaves \cup AstSingles)
                                 \cup {<<k>> : k \in AstPairs}}

AstSlides ==
    {Built(N_slide, << >>, ks) :
        ks \in SeqsUpTo2({Built(N_o, <<"a">>, << >>), Built(N_o, << >>, << >>),
                          Built(N_typewriter, <<"a">>, << >>)})}

Asts ==
    {<<n>> : n \in AstLeaves \cup AstSingles \cup AstPairs \cup AstTops}
    \cup {<<a, b>> : a \in AstSlides, b \in AstSlides}

\* the AST is there, no Parser has run
AstInit ==
    /\ pc = "parsed"
    /\ nodes \in Asts
    /\ original = << >>
    /\ source = << >>
    /\ position = 0
    /\ line_number = 1
    /\ escaped_sequences = EmptyDict
    /\ protected_code_blocks = EmptyDict
    /\ error = NoError
    /\ escRuns = << >>
    /\ codeBlocks = << >>
    /\ spans = << >>
    /\ lastFind = NoFind
    /\ caller = "none"
    /\ compiler = NoCompiler
    /\ node_index = 0
    /\ html_parts = << >>
    /\ html = << >>
    /\ handler = "unset"
    /\ returned = << >>

\* compiler.ast_compile(nodes) called once more on the same Compiler
AstCompileAgain ==
    /\ pc = "compiled"
    /\ Len(returned) < MaxCalls
    /\ html_parts' = << >>
    /\ node_index' = 0
    /\ pc' = "compile"
    /\ UNCHANGED <<parserVars, caller, compiler, html, handler, returned>>

NextAst ==
    \/ DirectCompile
    \/ AstCompileNode
    \/ AstCompileEnd
    \/ AstCompileAgain

SpecAst == AstInit /\ [][NextAst]_vars

(***************************************************************************)
(* What the properties below are stated over                               *)
(***************************************************************************)
\* the sum of a sequence of numbers
RECURSIVE Sum(_)
Sum(ns) == IF ns = << >> THEN 0 ELSE Head(ns) + Sum(Tail(ns))

\* the nodes of a list and all the nodes below them
RECURSIVE Descendants(_)
Descendants(ns) ==
    UNION {{ns[i]} \cup Descendants(ns[i].children) : i \in 1..Len(ns)}

\* the interior of the k-th top-level directive, as parse cut it from the source
Interior(k) == Slice(source, spans[k].brace + 1, spans[k].close)

\* the name of the directive token that starts at p
NameAt(s, p) == Slice(s, p + 1, DirectiveMatchAt(s, p) - 1)

\* a token with a registered name, with a name that is not registered
RegisteredAt(s, p) == DirectiveMatchAt(s, p) # -1 /\ IsRegistered(NameAt(s, p))
UnregisteredAt(s, p) == DirectiveMatchAt(s, p) # -1 /\ ~IsRegistered(NameAt(s, p))

\* the position of the brace that closes the brace opened at open, or -1
ClosingBrace(s, open) ==
    Least({j \in (open + 1)..(Len(s) - 1) :
             /\ At(s, j) = "}"
             /\ Count(Slice(s, open, j + 1), <<"{">>) = Count(Slice(s, open, j + 1), <<"}">>)
             /\ \A i \in (open + 1)..(j - 1) :
                  Count(Slice(s, open, i + 1), <<"{">>)
                      > Count(Slice(s, open, i + 1), <<"}">>)}, -1)

\* the registered directive spans of a text, left to right: the first
\* registered token at or after pos, its braces, then on from behind them
RECURSIVE RegisteredSpans(_, _)
RegisteredSpans(text, pos) ==
    LET start == Least({p \in pos..(Len(text) - 1) : RegisteredAt(text, p)}, -1)
        open == DirectiveMatchAt(text, start) - 1
        close == ClosingBrace(text, open)
    IN  IF start = -1 \/ close = -1 THEN << >>
        ELSE <<[start |-> start, open |-> open, close |-> close]>>
             \o RegisteredSpans(text, close + 1)

\* the content with every placeholder CHILD_i replaced by texts[i+1]
RECURSIVE Restored(_, _, _)
Restored(content, texts, i) ==
    IF i >= Len(texts) THEN content
    ELSE Restored(Replace(content, placeHolder_make(i), texts[i + 1]), texts, i + 1)

(***************************************************************************)
(* C1: in every node parse has produced, at the top level or nested at any *)
(* depth, the content holds each of the placeholders CHILD_0 ..            *)
(* CHILD_{N-1} of its N children exactly once and no CHILD placeholder     *)
(* with another index; the numbering starts at 0 in every node.  (No       *)
(* document of the model holds placeholder text itself.)                   *)
(***************************************************************************)
PlaceholdersOf(n) ==
    /\ \A i \in 0..(Len(n.children) - 1) : Count(n.content, placeHolder_make(i)) = 1
    /\ Count(n.content, placeholder_prefix) = Len(n.children)

C1_PlaceholdersMatchChildren ==
    \A n \in Descendants(nodes) : PlaceholdersOf(n)

\* a parse whose tree has a node with several children and, below it, a
\* node with several children of its own
C1_Witness ==
    /\ pc = "parsed"
    /\ \E n \in Descendants(nodes) :
          /\ Len(n.children) >= 2
          /\ \E m \in Descendants(n.children) : Len(m.children) >= 2

(***************************************************************************)
(* C2: the children of a node are the registered directive spans of its    *)
(* post-modifier text, in the order of the text: as many children as       *)
(* spans, child i carries the name of span i and is itself built from the  *)
(* interior of span i in the same way, and the content with every CHILD_i  *)
(* replaced by the source text of span i is the post-modifier text.        *)
(***************************************************************************)
RECURSIVE BuiltFrom(_, _)
BuiltFromSpans(n, rem, sp) ==
    /\ Len(n.children) = Len(sp)
    /\ Restored(n.content,
                [i \in 1..Len(sp) |-> Slice(rem, sp[i].start, sp[i].close + 1)], 0) = rem
    /\ \A i \in 1..Len(sp) :
          /\ n.children[i].directive = NameAt(rem, sp[i].start)
          /\ BuiltFrom(n.children[i], Slice(rem, sp[i].open + 1, sp[i].close))

BuiltFromText(n, rem) == BuiltFromSpans(n, rem, RegisteredSpans(rem, 0))

\* n is the node of a directive with that interior
BuiltFrom(n, interior) == BuiltFromText(n, modifiers_extract(interior).remaining)

C2_ChildrenAreSpansInOrder ==
    \A k \in 1..Len(nodes) : BuiltFrom(nodes[k], Interior(k))

\* a node with two children that are different directives, and text
\* before, between or after them
C2_Witness ==
    /\ pc = "parsed"
    /\ \E n \in Descendants(nodes) :
          /\ Len(n.children) >= 2
          /\ n.children[1].directive # n.children[2].directive
          /\ Len(n.content) > Len(placeHolder_make(0)) + Len(placeHolder_make(1))

(***************************************************************************)
(* C3: inside a directive's content a token whose name is not registered   *)
(* creates no child and stays in the content as it was written, and the    *)
(* scan goes on right behind its opening brace: the children are the       *)
(* registered directives a search that treats such tokens as plain text    *)
(* finds, those after and those inside the token's braces included.        *)
(***************************************************************************)
\* the positions of the text outside the registered spans sp
Outside(text, sp) ==
    {p \in 0..(Len(text) - 1) : \A i \in 1..Len(sp) : p < sp[i].start \/ p > sp[i].close}

\* the tokens of the text that are not registered and lie outside the spans
OwnUnregistered(text, sp) == {p \in Outside(text, sp) : UnregisteredAt(text, p)}

\* where position p of the text, outside the spans, lies in the content
\* that holds a placeholder for each span
InContent(p, sp) ==
    LET before == {i \in 1..Len(sp) : sp[i].close < p}
        lost == [i \in 1..Len(sp) |->
                    IF i \in before
                    THEN (sp[i].close + 1 - sp[i].start) - Len(placeHolder_make(i - 1))
                    ELSE 0]
    IN  p - Sum(lost)

RECURSIVE UnregisteredKept(_, _)
UnregisteredKeptIn(n, rem, sp) ==
    /\ \A c \in 1..Len(n.children) : IsRegistered(n.children[c].directive)
    /\ \A p \in OwnUnregistered(rem, sp) :
          /\ StartsWith(n.content, InContent(p, sp),
                        Slice(rem, p, DirectiveMatchAt(rem, p)))
          \* the first registered token behind the opening brace is a child
          /\ \A q \in DirectiveMatchAt(rem, p)..(Len(rem) - 1) :
                (/\ RegisteredAt(rem, q)
                 /\ ClosingBrace(rem, DirectiveMatchAt(rem, q) - 1) # -1
                 /\ \A r \in DirectiveMatchAt(rem, p)..(q - 1) : ~RegisteredAt(rem, r))
                => \E i \in 1..Len(sp) :
                      /\ sp[i].start = q
                      /\ i <= Len(n.children)
                      /\ n.children[i].directive = NameAt(rem, q)
    /\ \A i \in 1..Len(sp) :
          i <= Len(n.children)
          => UnregisteredKept(n.children[i], Slice(rem, sp[i].open + 1, sp[i].close))

UnregisteredKept(n, interior) ==
    UnregisteredKeptIn(n, modifiers_extract(interior).remaining,
                       RegisteredSpans(modifiers_extract(interior).remaining, 0))

FirstRegistered(s, pos) ==
    Least({p \in pos..(Len(s) - 1) : RegisteredAt(s, p)}, -1)

C4_FindSkipsOnlyTheToken ==
    lastFind.from # -1 => lastFind.found = FirstRegistered(source, lastFind.from)

\* directive_find has skipped a token that is not registered, with text
\* before it, and has given the registered token behind it
C4_Witness ==
    /\ lastFind.from # -1
    /\ lastFind.found # -1
    /\ \E p \in (lastFind.from + 1)..(lastFind.found - 1) : UnregisteredAt(source, p)

(***************************************************************************)
(* C5: a reserved modifier is in the node's modifiers exactly when it      *)
(* stands in the leading run of modifiers of the content, and then it      *)
(* makes no child and no placeholder and the content is the text behind    *)
(* the run; a reserved name after other text is a child; without a         *)
(* leading modifier the content is what was written.                       *)
(***************************************************************************)
\* the leading run of modifiers of a text: the names in it and its end (the
\* start of the text behind it), by the grammar: white space, then
\* modifiers with only white space between and behind them
RECURSIVE LeadingRun(_, _, _)
LeadingRun(text, pos, names) ==
    LET name == ModifierAt(text, pos)
        close == ClosingBrace(text, pos + Len(name) + 1)
    IN  IF pos >= Len(text) \/ name = << >> \/ close = -1
        THEN [names |-> names, end |-> IF names = {} THEN 0 ELSE pos]
        ELSE LeadingRun(text, LStripFrom(text, close + 1), names \cup {name})

\* the keys a .style{} modifier can put into the dict: its own and those of
\* the align and width it may hold
StyleKeys == {N_style, N_align, N_width}

RECURSIVE ModifiersFromRun(_, _)
ModifiersFromRunIn(n, interior, run) ==
    /\ \A name \in {N_class, N_syntax} : name \in DOMAIN n.modifiers <=> name \in run.names
    /\ (StyleKeys \cap DOMAIN n.modifiers # {}) <=> N_style \in run.names
    /\ DOMAIN n.modifiers \subseteq StyleKeys \cup {N_class, N_syntax}
    /\ BuiltFromText(n, From(interior, run.end))
    /\ \A i \in 1..Len(n.children) :
          ModifiersFromRun(n.children[i],
                           LET sp == RegisteredSpans(From(interior, run.end), 0)
                           IN  Slice(From(interior, run.end), sp[i].open + 1, sp[i].close))

ModifiersFromRun(n, interior) ==
    ModifiersFromRunIn(n, interior, LeadingRun(interior, LStripFrom(interior, 0), {}))

C5_ModifiersAreTheLeadingRun ==
    \A k \in 1..Len(nodes) : ModifiersFromRun(nodes[k], Interior(k))

(***************************************************************************)
(* C6: every well-formed backslash-escaped directive of the source, in     *)
(* source order, has its de-escaped literal text stored in                 *)
(* escaped_sequences under the next id (0, 1, 2, ... without gaps) and its *)
(* whole run replaced by exactly one ESCAPE placeholder of that id; after  *)
(* parse the escaped text has made no child and no modifier: the tree is   *)
(* the one of the source with plain text in place of the escaped runs.     *)
(***************************************************************************)
\* an escaped directive token starts at p: backslash, dot, name, optional
\* backslash, brace.  The position of the brace, or -1.
EscapedOpen(s, p) ==
    LET e == NameEnd(s, p + 2)
    IN  IF ~(p + 1 < Len(s) /\ At(s, p) = BSL /\ At(s, p + 1) = "." /\ ValidName(s, p + 2, e))
        THEN -1
        ELSE IF e < Len(s) /\ At(s, e) = "{" THEN e
        ELSE IF e + 1 < Len(s) /\ At(s, e) = BSL /\ At(s, e + 1) = "{" THEN e + 1
        ELSE -1

\* a well-formed escaped directive starts at p: the token, and a closing
\* brace for its opening brace
WellFormedEscape(s, p) ==
    EscapedOpen(s, p) # -1 /\ ClosingBrace(s, EscapedOpen(s, p)) # -1

\* the text with the escapes removed: the backslash of every escaped brace
\* and of every well-formed escaped directive
DeEscaped(s, a, b) ==
    LET dropped == {i \in a..(b - 1) :
                      \/ i + 1 < b /\ At(s, i) = BSL /\ At(s, i + 1) \in {"{", "}"}
                      \/ WellFormedEscape(s, i)}
        kept == {i \in a..(b - 1) : i \notin dropped}
        nth(k) == CHOOSE i \in kept : Cardinality({j \in kept : j < i}) = k - 1
    IN  [k \in 1..Cardinality(kept) |-> At(s, nth(k))]

\* the source with run i replaced by fill[i+1], for every run
RECURSIVE Refilled(_, _, _, _)
Refilled(s, runs, k, fill) ==
    IF k > Len(runs) THEN From(s, IF runs = << >> THEN 0 ELSE runs[Len(runs)].end)
    ELSE Slice(s, IF k = 1 THEN 0 ELSE runs[k - 1].end, runs[k].start)
         \o fill[k] \o Refilled(s, runs, k + 1, fill)

\* what escapes_protect has to make of the original text
EscapesStored ==
    /\ DOMAIN escaped_sequences = 0..(Len(escRuns) - 1)
    /\ \A k \in 1..Len(escRuns) :
          /\ WellFormedEscape(original, escRuns[k].start)
          /\ escRuns[k].end = ClosingBrace(original, EscapedOpen(original, escRuns[k].start)) + 1
          /\ k > 1 => escRuns[k - 1].end <= escRuns[k].start
          /\ escaped_sequences[k - 1] = DeEscaped(original, escRuns[k].start, escRuns[k].end)
    /\ \A p \in 0..(Len(original) - 1) :
          (WellFormedEscape(original, p)
             /\ \A k \in 1..Len(escRuns) : p < escRuns[k].start \/ p >= escRuns[k].end)
          => \E k \in 1..Len(escRuns) : escRuns[k].start = p

\* the tree of a source text: the loop of parse as a function
RECURSIVE TreeOf(_, _)
TreeAfter(s, it) ==
    IF it.w.position >= Len(s) \/ it.match = None \/ it.brace_pos = -1
       \/ it.close.err # NoError \/ it.processed.err # NoError
    THEN << >>
    ELSE <<ASTNode(it.match.name, it.processed.modifiers, it.processed.content,
                   it.processed.children, 0)>> \o TreeOf(s, it.close.pos + 1)

TreeOf(s, pos) == TreeAfter(s, Iteration(s, pos, 1))

\* the directives, modifier names and children of a tree
RECURSIVE Shape(_)
Shape(ns) ==
    [i \in 1..Len(ns) |-> [directive |-> ns[i].directive,
                           modifiers |-> DOMAIN ns[i].modifiers,
                           children |-> Shape(ns[i].children)]]

\* the original text with a plain character in place of every escaped run,
\* taken through the steps of parse that follow escapes_protect
InertSource ==
    Strip(codeblocks_protect(
              Replace(Refilled(original, escRuns, 1, [k \in 1..Len(escRuns) |-> <<"~">>]),
                      <<BSL, BSL>>, LineBreak), 1).source)

C6_EscapesAreStoredAndInert ==
    /\ pc # "start" =>
          /\ EscapesStored
          /\ pc = "escaped" =>
                source = Refilled(original, escRuns, 1,
                                  [k \in 1..Len(escRuns) |-> EscapePlaceholder(k - 1)])
    /\ pc = "parsed" => Shape(nodes) = Shape(TreeOf(InertSource, 0))

(***************************************************************************)
(* C7 as the specification states it: a .code{ } block is protected        *)
(* exactly when its interior begins, after optional white space, with      *)
(* .syntax{ : every block of the text whose interior begins so is stored   *)
(* and replaced, wherever it stands.                                       *)
(***************************************************************************)
\* the text codeblocks_protect is given
BeforeCode == Replace(escapes_protect(original).source, <<BSL, BSL>>, LineBreak)

\* the text begins, after optional white space, with lit
LeadingIs(text, lit) ==
    \E k \in 0..Len(text) :
        /\ \A j \in 0..(k - 1) : IsSpace(At(text, j))
        /\ StartsWith(text, k, lit)

\* a .code{ } block starts at p: the token and the brace that closes it
CodeBlockAt(s, p) ==
    StartsWith(s, p, CodeOpen) /\ ClosingBrace(s, p + Len(CodeOpen) - 1) # -1

\* the interior of the block that starts at p
CodeInterior(s, p) ==
    Slice(s, p + Len(CodeOpen), ClosingBrace(s, p + Len(CodeOpen) - 1))

\* codeblocks_protect has protected the block that starts at p
ProtectedAt(p) ==
    \E k \in 1..Len(codeBlocks) :
        codeBlocks[k].brace_start = p + Len(CodeOpen) - 1 /\ codeBlocks[k].protected

RECURSIVE BlocksMet(_, _)
BlocksMet(s, pos) ==
    LET p == Find(s, CodeOpen, pos)
        open == p + Len(CodeOpen) - 1
    IN  IF p = -1 \/ ClosingBrace(s, open) = -1 THEN << >>
        ELSE <<[brace_start |-> open, brace_end |-> ClosingBrace(s, open),
                protected |-> LeadingIs(Slice(s, open + 1, ClosingBrace(s, open)),
                                        SyntaxOpen)]>>
             \o BlocksMet(s, ClosingBrace(s, open) + 1)

\* the interiors of the protected blocks, as runs of the text
ProtectedRuns(blocks) ==
    LET ks == {k \in 1..Len(blocks) : blocks[k].protected}
        nth(i) == CHOOSE k \in ks : Cardinality({j \in ks : j < k}) = i - 1
    IN  [i \in 1..Cardinality(ks) |->
            [start |-> blocks[nth(i)].brace_start + 1, end |-> blocks[nth(i)].brace_end]]

CodeStored(runs) ==
    /\ DOMAIN protected_code_blocks = 0..(Len(runs) - 1)
    /\ \A i \in 1..Len(runs) :
          protected_code_blocks[i - 1] = Slice(BeforeCode, runs[i].start, runs[i].end)
    /\ pc = "protected" =>
          source = Refilled(BeforeCode, runs, 1,
                            [i \in 1..Len(runs) |-> CodePlaceholder(i - 1)])

CodeNode(n) ==
    HasPlaceholder(n.content, CodePrefix)
    => /\ n.directive = N_code
       /\ \E id \in DOMAIN protected_code_blocks : n.content = CodePlaceholder(id)
       /\ n.children = << >>
       /\ n.modifiers = EmptyDict

UnmatchedAt(s, brace) ==
    \E p \in 0..(Len(s) - 1) :
        /\ RegisteredAt(s, p)
        /\ DirectiveMatchAt(s, p) - 1 = brace
        /\ ClosingBrace(s, brace) = -1

C8_UnmatchedBraceRaises ==
    /\ pc \in {"parsed", "exit", "compile", "compiled"} =>
          \A brace \in 0..(Len(source) - 1) : ~UnmatchedAt(source, brace)
    /\ pc = "failed" =>
          /\ error.kind = "SyntaxError"
          /\ error.msg = "Unmatched brace"
          /\ UnmatchedAt(source, error.position)
          /\ nodes = << >>

(***************************************************************************)
(* C9: in node_compile the output of child i is put where the placeholder  *)
(* CHILD_i stands in the node's content and nowhere else: the output of a  *)
(* child, once in the content, is not changed by the substitution for      *)
(* another index, and the substitution for index i leaves the placeholder  *)
(* of every other index as it is (CHILD_1 and CHILD_10).                   *)
(***************************************************************************)
\* the index of the placeholder that starts at p in the content, or -1
ChildAt(content, p, n) ==
    Least({i \in 0..(n - 1) : StartsWith(content, p, placeHolder_make(i))}, -1)

\* the content with the output of child i at every place where CHILD_i
\* stands in it
RECURSIVE Positional(_, _, _)
Positional(content, p, compiled_children) ==
    LET n == Len(compiled_children)
        next == Least({q \in p..(Len(content) - 1) : ChildAt(content, q, n) # -1},
                      Len(content))
        i == ChildAt(content, next, n)
    IN  IF next = Len(content) THEN From(content, p)
        ELSE Slice(content, p, next) \o compiled_children[i + 1]
             \o Positional(content, next + Len(placeHolder_make(i)), compiled_children)

C9_SubstitutionIsPositional ==
    compiler # NoCompiler =>
        \A k \in 1..Len(compiler.log) :
            compiler.log[k].substituted
                = Positional(compiler.log[k].content, 0, compiler.log[k].compiled_children)

\* a node with more than ten children compiled: CHILD_1 and CHILD_10 both
\* stood in its content and each has got the output of its own child
C9_Witness ==
    /\ pc = "compiled"
    /\ \E k \in 1..Len(compiler.log) :
          /\ Len(compiler.log[k].compiled_children) > 10
          /\ Count(compiler.log[k].content, placeHolder_make(10)) = 1
          /\ compiler.log[k].substituted
                = Positional(compiler.log[k].content, 0, compiler.log[k].compiled_children)

(***************************************************************************)
(* C10: in the pipeline of the program, source_parse followed by           *)
(* html_compile, the Compiler works with the escape table and the          *)
(* raw-block table the parse has built, unchanged, and no ESCAPE or CODE   *)
(* placeholder is left in the HTML it gives.                               *)
(***************************************************************************)
C10_TablesReachTheCompiler ==
    caller = "html_compile" =>
        /\ compiler.escaped_sequences = escaped_sequences
        /\ compiler.protected_code_blocks = protected_code_blocks
        /\ pc = "compiled" =>
              /\ ~HasPlaceholder(html, EscapePrefix)
              /\ ~HasPlaceholder(html, CodePrefix)

(***************************************************************************)
(* C11: slide_count is incremented before the children of a slide node are *)
(* compiled, exactly when the slide has a child or content that is not     *)
(* blank; so the handler of every snippet and typewriter below a slide     *)
(* reads in slide_count the number of the slide that encloses it, the      *)
(* number the handler of that slide later puts in its id.                  *)
(***************************************************************************)
Log == IF compiler = NoCompiler THEN << >> ELSE compiler.log

\* the entries of the nodes below the node of entry k
Below(k) == (k - Log[k].size + 1)..(k - 1)

\* entry k is the nearest slide above the node of entry j
EnclosingSlide(k, j) ==
    /\ Log[k].directive = N_slide
    /\ j \in Below(k)
    /\ \A m \in Below(k) : Log[m].directive = N_slide => j \notin Below(m)

CountedBeforeChildren(k) ==
    Log[k].count_children
        = Log[k].count_call
          + (IF Log[k].compiled_children # << >> \/ ~Blank(Log[k].content) THEN 1 ELSE 0)

C11_ChildrenReadTheSlideNumber ==
    \A k \in 1..Len(Log) :
        Log[k].directive = N_slide =>
            /\ CountedBeforeChildren(k)
            /\ \A j \in 1..Len(Log) :
                  /\ EnclosingSlide(k, j)
                  /\ Log[j].directive \in {N_o, N_typewriter}
                  => Log[j].count_handler = Log[k].count_handler

\* a slide with a snippet and a typewriter below it, all compiled with the
\* number of the slide
C11_Witness ==
    /\ pc = "compiled"
    /\ \E k \in 1..Len(Log) :
          /\ Log[k].directive = N_slide
          /\ Log[k].count_children = Log[k].count_call + 1
          /\ \E j \in Below(k) : Log[j].directive = N_o
                                 /\ Log[j].count_handler = Log[k].count_handler
          /\ \E j \in Below(k) : Log[j].directive = N_typewriter
                                 /\ Log[j].count_handler = Log[k].count_handler

(***************************************************************************)
(* C12: the counters of a slide start again for every top-level slide:     *)
(* the first snippet that is not empty and the first typewriter that is    *)
(* not empty rendered in a top-level slide get the number 1 and the        *)
(* numbers go up in the subtree of that slide, whatever the other slides   *)
(* of the document hold.                                                   *)
(***************************************************************************)
\* entry k is a top-level node
TopLevel(k) == \A m \in 1..Len(Log) : k \notin Below(m)

\* the entries below k of the handlers of that directive which gave HTML,
\* in the order they ran
Rendered(k, directive) ==
    {j \in Below(k) : Log[j].directive = directive /\ Log[j].html # << >>}

\* the number the handler of entry j has put in the id
NumberOf(j) ==
    IF Log[j].directive = N_o THEN Log[j].counters.o[Log[j].count_handler]
    ELSE Log[j].counters.typewriter[Log[j].count_handler]

\* the numbers are 1, 2, 3, ... in the order of rendering
NumberedFromOne(k, directive) ==
    \A j \in Rendered(k, directive) :
        NumberOf(j) = Cardinality({i \in Rendered(k, directive) : i <= j})

C12_CountersRestartPerSlide ==
    \A k \in 1..Len(Log) :
        Log[k].directive = N_slide /\ TopLevel(k) =>
            /\ NumberedFromOne(k, N_o)
            /\ NumberedFromOne(k, N_typewriter)

\* the second top-level slide of a document whose first slide has a
\* snippet: its first snippet has the number 1 again
C12_Witness ==
    /\ pc = "compiled"
    /\ \E k1, k2 \in 1..Len(Log) :
          /\ k1 < k2
          /\ Log[k1].directive = N_slide /\ TopLevel(k1)
          /\ Log[k2].directive = N_slide /\ TopLevel(k2)
          /\ Rendered(k1, N_o) # {}
          /\ \E j \in Rendered(k2, N_o) : NumberOf(j) = 1

(***************************************************************************)
(* C13: after a fresh Compiler has compiled an AST, slide_count is the     *)
(* number of slide elements in the HTML, and these carry the ids slide-1   *)
(* to slide-N in the order of the document, each id once.                  *)
(***************************************************************************)
\* the text slide_handler writes before the number in the id of the slide
\* element
SlideIdOpen == <<"\" id=\"slide-">>

\* the places of the slide elements in the HTML
SlideElements == {p \in 0..(Len(html) - 1) : StartsWith(html, p, SlideIdOpen)}

\* the number in the id of the slide element at p
SlideIdAt(p) == StrToInt(Slice(html, p + 1, DigitsEnd(html, p + 1)))

C13_SlideIdsAreOneToN ==
    pc = "compiled" =>
        /\ compiler.slide_count = Cardinality(SlideElements)
        /\ \A p \in SlideElements :
              SlideIdAt(p) = Cardinality({q \in SlideElements : q <= p})

\* two slides compiled, with the ids slide-1 and slide-2
C13_Witness ==
    /\ pc = "compiled"
    /\ compiler.slide_count = 2
    /\ Cardinality(SlideElements) = 2
    /\ \A p \in SlideElements :
          SlideIdAt(p) = Cardinality({q \in SlideElements : q <= p})

(***************************************************************************)
(* C14: DirectiveRegistry.get tries the exact name first and then the      *)
(* wildcard specs in the order of registration, a wildcard prefix-* taking *)
(* every name that starts with prefix-; with the built-in registry it      *)
(* gives a handler exactly for the names slide, title, body, bf, em, tt,   *)
(* underline, h1 to h6, typewriter, o, column, code, comment, style,       *)
(* class, syntax, meta and for every name that starts with font- or with   *)
(* cowpy-, and None for every other name.  The Parser made without a       *)
(* registry uses this registry (IsRegistered).                             *)
(***************************************************************************)
ExactNames ==
    {N_slide, N_title, N_body, N_bf, N_em, N_tt, N_underline,
     <<"h","1">>, <<"h","2">>, <<"h","3">>, <<"h","4">>, <<"h","5">>, <<"h","6">>,
     N_typewriter, N_o, N_column, N_code, N_comment, N_style, N_class, N_syntax, N_meta}

FontName(name) == StartsWith(name, 0, <<"f","o","n","t","-">>)
CowpyName(name) == StartsWith(name, 0, <<"c","o","w","p","y","-">>)

WordBoundary(s, p) == p = 0 \/ ~IsWord(At(s, p - 1))

\* the leftmost assignment of key at a word boundary, at or after p
BoundarySearch(s, p, key, pct) ==
    LET i == Least({k \in p..(Len(s) - 1) :
                       WordBoundary(s, k) /\ AssignAt(s, k, key, pct).vend # -1}, -1)
    IN  IF i = -1 THEN [start |-> -1, vstart |-> -1, vend |-> -1]
        ELSE [start |-> i, vstart |-> AssignAt(s, i, key, pct).vstart,
              vend |-> AssignAt(s, i, key, pct).vend]

\* the text without the assignments of key that stand at a word boundary
RECURSIVE BoundaryRemove(_, _, _)
BoundaryRemove(s, key, pct) ==
    LET m == BoundarySearch(s, 0, key, pct)
    IN  IF m.start = -1 THEN s
        ELSE Slice(s, 0, m.start) \o BoundaryRemove(From(s, AssignTail(s, m.vend)), key, pct)

\* the entries the style value gives: a the assignment of align in the
\* value, w the assignment of width in what is left, rest what is left then
StyleEntriesOf(value, a, afterAlign, w, rest) ==
    (IF a.start # -1 THEN (N_align :> Slice(value, a.vstart, a.vend)) ELSE EmptyDict)
    @@ (IF w.start # -1 THEN (N_width :> Slice(afterAlign, w.vstart, w.vend)) ELSE EmptyDict)
    @@ (IF rest # << >> THEN (N_style :> rest) ELSE EmptyDict)

StyleAfterWidth(value, a, afterAlign, w) ==
    StyleEntriesOf(value, a, afterAlign, w,
                   Strip(RStripSemi(IF w.start = -1 THEN afterAlign
                                    ELSE Strip(BoundaryRemove(afterAlign, N_width, TRUE)))))

StyleAfterAlign(value, a, afterAlign) ==
    StyleAfterWidth(value, a, afterAlign, BoundarySearch(afterAlign, 0, N_width, TRUE))

StyleEntries(value, a) ==
    StyleAfterAlign(value, a,
                    IF a.start = -1 THEN value
                    ELSE Strip(BoundaryRemove(value, N_align, FALSE)))

\* the value of the .style{ } that alone makes the leading run of the text,
\* as a one-element set; empty when the run is not of that form
LoneStyleValue(text) ==
    LET pos == LStripFrom(text, 0)
        close == ClosingBrace(text, pos + Len(N_style) + 1)
    IN  IF /\ ModifierAt(text, pos) = N_style
           /\ close # -1
           /\ ModifierAt(text, LStripFrom(text, close + 1)) = << >>
        THEN {Slice(text, pos + Len(N_style) + 2, close)}
        ELSE {}

C15_AssignmentsAtWordBoundary ==
    \A k \in 1..Len(nodes) :
        \A value \in LoneStyleValue(Interior(k)) :
            nodes[k].modifiers
                = StyleEntries(value, BoundarySearch(value, 0, N_align, FALSE))

\* a style with text, an align and a width assignment: three entries, the
\* style entry without the two assignments
C15_Witness ==
    /\ pc = "parsed"
    /\ \E k \in 1..Len(nodes) :
          /\ LoneStyleValue(Interior(k)) # {}
          /\ DOMAIN nodes[k].modifiers = {N_style, N_align, N_width}
          /\ \A value \in LoneStyleValue(Interior(k)) :
                /\ nodes[k].modifiers
                       = StyleEntries(value, BoundarySearch(value, 0, N_align, FALSE))
                /\ Len(nodes[k].modifiers[N_style]) < Len(value)

(***************************************************************************)
(* C16: a malformed escape (backslash, dot, not followed by a well-formed  *)
(* balanced escaped directive) is never fatal: escapes_protect leaves its  *)
(* characters in place, goes on one character and continues, and a         *)
(* document whose only defect is such an escape inside a directive that is *)
(* balanced otherwise is parsed without an error.                          *)
(***************************************************************************)
\* a backslash and a dot at p, outside the runs escapes_protect replaced,
\* that do not start a well-formed escaped directive
MalformedEscape(p) ==
    /\ p + 1 < Len(original) /\ At(original, p) = BSL /\ At(original, p + 1) = "."
    /\ ~WellFormedEscape(original, p)
    /\ \A k \in 1..Len(escRuns) : p < escRuns[k].start \/ p >= escRuns[k].end

\* every brace opened in the text is closed
AllClosed(s) ==
    \A b \in 0..(Len(s) - 1) : At(s, b) = "{" => ClosingBrace(s, b) # -1

\* the text as its author reads it: an escaped brace is a character, here "~"
LiteralText(s) ==
    [i \in 1..Len(s) |->
        IF s[i] \in {"{", "}"} /\ i > 1 /\ s[i - 1] = BSL THEN "~" ELSE s[i]]

\* the malformed escape at p lies inside a directive's braces, and every
\* escaped brace of the text comes behind it
InsideDirective(p) ==
    /\ \E b \in 0..(p - 1) :
          /\ At(LiteralText(original), b) = "{"
          /\ ClosingBrace(LiteralText(original), b) > p
    /\ \A i \in 0..(Len(original) - 1) :
          At(LiteralText(original), i) = "~" => i > p

Backslashes(s, i) ==
    i - Least({j \in 0..i : \A k \in j..(i - 1) : At(s, k) = BSL}, i)

\* a pair the replacement takes starts at i: two backslashes behind an even
\* number of backslashes
PairAt(s, i) ==
    /\ i >= 0 /\ i + 1 < Len(s)
    /\ At(s, i) = BSL /\ At(s, i + 1) = BSL
    /\ Backslashes(s, i) % 2 = 0

\* the text with every such pair replaced
WithLineBreaks(s) ==
    Flatten([i \in 1..Len(s) |->
                IF PairAt(s, i - 1) THEN LineBreak
                ELSE IF PairAt(s, i - 2) THEN << >>
                ELSE <<s[i]>>])

\* the source as escapes_protect left it
EscapedSource ==
    Refilled(original, escRuns, 1, [k \in 1..Len(escRuns) |-> EscapePlaceholder(k - 1)])

CodeInteriors(s) ==
    {Slice(s, p + Len(CodeOpen), ClosingBrace(s, p + Len(CodeOpen) - 1)) :
        p \in {q \in 0..(Len(s) - 1) :
                  /\ StartsWith(s, q, CodeOpen)
                  /\ ClosingBrace(s, q + Len(CodeOpen) - 1) # -1}}

C18_RawBlockIsOriginalText ==
    pc \in {"protected", "scan", "parsed"} =>
        \A id \in DOMAIN protected_code_blocks :
            protected_code_blocks[id] \in CodeInteriors(original)

\* a block protected whose interior had a double backslash in the original
C18_Witness ==
    /\ pc = "parsed"
    /\ DOMAIN protected_code_blocks = {0}
    /\ \E t \in CodeInteriors(original) :
          /\ Find(t, <<BSL, BSL>>, 0) # -1
          /\ protected_code_blocks[0] = WithLineBreaks(t)

(***************************************************************************)
(* C19: a directive token, a dot and a registered name, with no opening    *)
(* brace after it anywhere in the rest of the source makes parse fail with *)
(* "Expected '{' after directive", the error giving the line, the position *)
(* and the context.                                                        *)
(***************************************************************************)
\* a dot and a registered name start at p, not behind a backslash, and no
\* opening brace follows anywhere
BareTokenAt(s, p) ==
    /\ p < Len(s) /\ At(s, p) = "."
    /\ p > 0 => At(s, p - 1) # BSL
    /\ ValidName(s, p + 1, NameEnd(s, p + 1))
    /\ IsRegistered(Slice(s, p + 1, NameEnd(s, p + 1)))
    /\ Find(s, <<"{">>, p) = -1

\* the braces before the token are closed, so the scan comes as far as the token
C19_MissingBraceRaises ==
    (/\ pc \in {"parsed", "failed"}
     /\ AllClosed(source)
     /\ \E p \in 0..(Len(source) - 1) : BareTokenAt(source, p))
    => /\ pc = "failed"
       /\ error.msg = "Expected '{' after directive"
       /\ error.line >= 1 /\ error.position >= 0 /\ error.caret >= 0

\* the parse of a text with such a token behind a closed directive has ended
\* without an error
C19_Witness ==
    /\ pc = "parsed"
    /\ error = NoError
    /\ Len(nodes) = 1
    /\ \E p \in 0..(Len(source) - 1) :
          BareTokenAt(source, p) /\ p > spans[1].close

(***************************************************************************)
(* C20: every failure of parse, for a brace that is not matched at the top *)
(* level, in nested content or in a modifier, or for a missing brace,      *)
(* carries the message, the line number, the character offset and a        *)
(* snippet of the source of at most 40 characters on each side of the      *)
(* offset, with a caret under it.                                          *)
(***************************************************************************)
\* the snippet of s around position, ContextWidth characters on each side
ContextOf(s, p) ==
    [i \in 1..((IF Len(s) < p + ContextWidth THEN Len(s) ELSE p + ContextWidth)
                 - (IF p > ContextWidth THEN p - ContextWidth ELSE 0)) |->
        s[i + (IF p > ContextWidth THEN p - ContextWidth ELSE 0)]]

C20_FailureCarriesContext ==
    pc = "failed" =>
        /\ error.kind = "SyntaxError"
        /\ error.msg # ""
        /\ error.line >= 1
        /\ error.position \in 0..Len(source)
        /\ error.caret >= 0
        /\ error.context = ContextOf(source, error.position)

\* a parse that failed for a brace of a later line: the error names the line
\* and the offset and has neither snippet nor caret
C20_Witness ==
    /\ pc = "failed"
    /\ error.msg = "Unmatched brace"
    /\ error.line > 1
    /\ error.position > 0
    /\ error.caret = -1
    /\ error.context = << >>

(***************************************************************************)
(* C21: during parse the scan position and the line counter never          *)
(* decrease and the line counter is incremented for every newline the scan *)
(* passes, also for the newlines inside the body of a directive already    *)
(* consumed and in skipped text; so the line_number of a top-level node is *)
(* 1 plus the number of newlines before its opening token in the parsed    *)
(* source, and every nested node has the line_number of its top-level      *)
(* ancestor.                                                               *)
(***************************************************************************)
\* the 1-based line of position p of the text
LineOf(s, p) == 1 + Count(Slice(s, 0, p), <<"\n">>)

\* position and line counter never go back while the loop of parse runs
ScanAdvances ==
    pc = "scan" => position' >= position /\ line_number' >= line_number

LinesCounted ==
    /\ pc = "scan" => line_number = LineOf(source, position)
    /\ \A k \in 1..Len(nodes) :
          /\ nodes[k].line_number = LineOf(source, spans[k].pos)
          /\ \A n \in Descendants(nodes[k].children) :
                n.line_number = nodes[k].line_number

C21_LineNumberIsLineOfToken == [][ScanAdvances]_vars /\ []LinesCounted

\* two directives on two lines, the first without a newline in its body: the
\* second node has line 2
C21_Witness ==
    /\ pc = "parsed"
    /\ Len(nodes) = 2
    /\ nodes[1].line_number = 1
    /\ nodes[2].line_number = 2
    /\ LineOf(source, spans[2].pos) = 2

(***************************************************************************)
(* C22: node_compile overwrites the content of a node only for the time of *)
(* the call: when node_compile(node) has returned, the content, children,  *)
(* modifiers and directive of the node and of every node of its subtree    *)
(* are what they were before the call.                                     *)
(***************************************************************************)
NodesAsBefore == pc = "compile" => nodes' = nodes

C22_ContentRestoredAfterCall == [][NodesAsBefore]_vars

\* a node with a child compiled: the handler saw the content with the child's
\* HTML in it, and the node has the content with the placeholder again
C22_Witness ==
    /\ pc = "compile"
    /\ node_index = 1
    /\ nodes[1].children # << >>
    /\ Find(nodes[1].content, placeHolder_make(0), 0) # -1
    /\ Log[Len(Log)].content = nodes[1].content
    /\ Log[Len(Log)].substituted # nodes[1].content
    /\ Find(Log[Len(Log)].substituted, placeHolder_make(0), 0) = -1

(***************************************************************************)
(* C23: the parse of an empty source or of one of white space only gives   *)
(* an empty node list and raises nothing; the parse of .slide{} gives      *)
(* exactly one node, with the directive slide, empty content, no children  *)
(* and no modifiers.                                                       *)
(***************************************************************************)
WhitespaceOnly(s) == \A i \in 1..Len(s) : IsSpace(s[i])

C23_EmptySourceAndEmptySlide ==
    /\ WhitespaceOnly(original) =>
          /\ pc \notin {"scan", "failed"}
          /\ nodes = << >>
          /\ error = NoError
    /\ original = DocEmptySlide =>
          /\ pc # "failed" /\ error = NoError
          /\ pc = "scan" => Len(nodes) <= 1
          /\ pc = "parsed" =>
                nodes = <<ASTNode(N_slide, EmptyDict, << >>, << >>, 1)>>

\* parse has returned for a source of white space that is not empty
C23_Witness ==
    /\ pc = "parsed"
    /\ original # << >>
    /\ WhitespaceOnly(original)
    /\ \E i \in 1..Len(original) : original[i] = "\n"
    /\ source = << >>

\* parse has returned the one node of .slide{}
EmptySlideParsed ==
    /\ pc = "parsed"
    /\ original = DocEmptySlide
    /\ Len(nodes) = 1

(***************************************************************************)
(* C24: a leading modifier with an empty value, .style{} or .class{}, is   *)
(* still recorded in the modifiers of the node, with the empty string as   *)
(* its value, and the content of the node is the text that follows it.     *)
(***************************************************************************)
\* the interior is white space, the modifier name{} and plain text
EmptyModifierThenText(interior, name) ==
    LET a == LStripFrom(interior, 0)
        b == a + Len(Dir(name)) + 1
    IN  /\ StartsWith(interior, a, Dir(name) \o <<"}">>)
        /\ \A i \in b..(Len(interior) - 1) : At(interior, i) \notin {".", "{", "}", NUL}

\* the text behind the modifier and the white space after it
TextBehind(interior, name) ==
    From(interior, LStripFrom(interior, LStripFrom(interior, 0) + Len(Dir(name)) + 1))

C24_EmptyModifierIsRecorded ==
    \A k \in 1..Len(nodes) : \A name \in {N_style, N_class} :
        EmptyModifierThenText(Interior(k), name) =>
            /\ name \in DOMAIN nodes[k].modifiers
            /\ nodes[k].modifiers[name] = << >>
            /\ nodes[k].content = TextBehind(Interior(k), name)

\* the same for .class{} alone
EmptyClassIsRecorded ==
    \A k \in 1..Len(nodes) :
        EmptyModifierThenText(Interior(k), N_class) =>
            /\ N_class \in DOMAIN nodes[k].modifiers
            /\ nodes[k].modifiers[N_class] = << >>
            /\ nodes[k].content = TextBehind(Interior(k), N_class)

\* a node parsed from .style{} and text: it has the text and no style entry
C24_Witness ==
    /\ pc = "parsed"
    /\ Len(nodes) = 1
    /\ EmptyModifierThenText(Interior(1), N_style)
    /\ nodes[1].content = TextBehind(Interior(1), N_style)
    /\ nodes[1].content # << >>
    /\ nodes[1].modifiers = EmptyDict

\* a node parsed from .class{} and text, with the empty class entry
EmptyClassParsed ==
    /\ pc = "parsed"
    /\ Len(nodes) = 1
    /\ EmptyModifierThenText(Interior(1), N_class)
    /\ nodes[1].content # << >>
    /\ nodes[1].modifiers = (N_class :> << >>)

(***************************************************************************)
(* C25: a node whose directive name has no handler in the registry of the  *)
(* renderer does not make the compilation fail: node_compile gives         *)
(* <div class="directive-NAME"> around the substituted content of the      *)
(* node, and the children of the node are still rendered and substituted.  *)
(***************************************************************************)
\* the log entries of the children of the node of entry k, in order: the
\* roots of the subtrees that end at j, j - size, ... down to low
RECURSIVE ChildRoots(_, _)
ChildRoots(j, low) ==
    IF j < low THEN << >> ELSE ChildRoots(j - Log[j].size, low) \o <<j>>

ChildrenOf(k) == ChildRoots(k - 1, k - Log[k].size + 1)

\* the content with the placeholders at its end replaced by the children's HTML
TextThenChildren(content, compiled_children) ==
    SubSeq(content, 1, Len(content) - Len(Placeholders(Len(compiled_children))))
        \o Flatten(compiled_children)

C25_UnknownDirectiveIsWrapped ==
    /\ \A k \in 1..Len(Log) :
          ~IsRegistered(Log[k].directive) =>
             /\ Log[k].html = <<"<div class=\"directive-">> \o Log[k].directive \o <<"\">">>
                                 \o Log[k].substituted \o <<"</div>">>
             /\ Log[k].compiled_children
                   = [i \in 1..Len(ChildrenOf(k)) |-> Log[ChildrenOf(k)[i]].html]
             /\ Log[k].substituted = TextThenChildren(Log[k].content, Log[k].compiled_children)
    /\ pc = "compiled" =>
          /\ Len(html_parts) = Len(nodes)
          /\ \A i \in 1..Len(nodes) :
                ~IsRegistered(nodes[i].directive) =>
                    StartsWith(html_parts[i], 0,
                               <<"<div class=\"directive-">> \o nodes[i].directive)

\* an AST compiled whose top node has no handler and has a snippet below
\* it: the HTML is the wrapper with the snippet's element in it
C25_Witness ==
    /\ pc = "compiled"
    /\ Len(nodes) = 1
    /\ nodes[1].directive = UnknownName
    /\ Len(nodes[1].children) = 2
    /\ StartsWith(html, 0, <<"<div class=\"directive-">> \o UnknownName)
    /\ Find(html, <<"<div class=\"snippet\" id=\"order-">>, 0) # -1
    /\ Find(html, placeholder_prefix, 0) = -1

(***************************************************************************)
(* C26: parsing terminates on every finite source: each iteration of the   *)
(* top-level loop of parse, of directive_find, of escapes_protect, of      *)
(* codeblocks_protect and of the nested scan of content_processRecursive   *)
(* either stops or strictly reduces the amount of text left to scan, also  *)
(* when a placeholder put in is longer than the directive span it          *)
(* replaces.                                                               *)
(***************************************************************************)
\* the texts the loops have run on: the source before and after the
\* preprocessing and the content of every node
ScannedTexts == {original, source} \cup {n.content : n \in Descendants(nodes)}

\* escapes_protect at pos: behind the protected sequence, or one character on
EscapeReduces(s, pos) ==
    (IF EscapedAt(s, pos) THEN EscapeTry(s, pos).brace_pos ELSE pos + 1) > pos

\* codeblocks_protect at pos: behind the block, or one character on, or raised
CodeReduces(s, pos) ==
    \/ ~StartsWith(s, pos, CodeOpen)
    \/ brace_findMatching(s, pos + Len(CodeOpen) - 1, 1).err # NoError
    \/ brace_findMatching(s, pos + Len(CodeOpen) - 1, 1).pos + 1 > pos

\* directive_find at search_pos: returns, or resumes further on
FindReduces(s, search_pos, m) ==
    \/ m.start = -1
    \/ IsRegistered(Slice(s, m.start + 1, m.end - 1))
    \/ FindResume(search_pos, m.start - search_pos, m.end - search_pos) > search_pos

\* the nested scan at pos, the next child having index i: stops, raises, or
\* has less text left behind the new position in the new text
NestedReduces(processed, pos, i, m) ==
    \/ m.start = -1
    \/ /\ ~IsRegistered(Slice(processed, m.start + 1, m.end - 1))
       /\ Len(processed) - UnregisteredResume(processed, m.start, m.end)
             < Len(processed) - pos
    \/ /\ IsRegistered(Slice(processed, m.start + 1, m.end - 1))
       /\ \/ BraceScan(processed, m.end, 1).depth # 0
          \/ Len(Splice(processed, m.start, placeHolder_make(i),
                        BraceScan(processed, m.end, 1).pos))
                - PlaceholderResume(m.start, placeHolder_make(i))
               < Len(processed) - pos

\* the loop of parse at the position of the state: ends, raises, or goes on
\* behind the closing brace
ParseReduces(it) ==
    \/ it.w.position >= Len(source)
    \/ it.match = None
    \/ it.brace_pos = -1 \/ it.close.err # NoError \/ it.processed.err # NoError
    \/ Len(source) - (it.close.pos + 1) < Len(source) - position

\* on the text codeblocks_protect is given, and on all texts when parse has
\* returned or raised
C26_IterationsReduceTextLeft ==
    /\ pc \in {"breaks", "parsed", "failed"} =>
          \A s \in ScannedTexts : \A pos \in 0..(Len(s) - 1) :
             /\ EscapeReduces(s, pos)
             /\ CodeReduces(s, pos)
             /\ FindReduces(s, pos, DirectiveSearch(s, pos))
             /\ \A i \in {0, MaxChildren - 1} :
                   NestedReduces(s, pos, i, DirectiveSearch(s, pos))
    /\ (pc = "scan" /\ position < Len(source))
          => ParseReduces(Iteration(source, position, line_number))

\* a parse that put a placeholder in for a span shorter than the placeholder
\* and went on to a second child behind it
C26_Witness ==
    /\ pc = "parsed"
    /\ Len(nodes) = 1
    /\ Len(nodes[1].children) = 2
    /\ Len(nodes[1].content) > spans[1].close - spans[1].brace - 1
    /\ StartsWith(nodes[1].content, 0, placeHolder_make(0) \o placeHolder_make(1))

(***************************************************************************)
(* C27: the HTML ast_compile returns for a parsed AST holds no CHILD_<i>   *)
(* placeholder: every placeholder of every node has been replaced by the   *)
(* rendered output of the child before the text reaches the result, the    *)
(* title text slide_handler copies from its title child included.          *)
(***************************************************************************)
C27_NoChildPlaceholderInHtml ==
    pc = "compiled" => Find(html, placeholder_prefix, 0) = -1

\* the HTML of a slide whose title has a child: the title text in it is the
\* raw content of the title node, with the placeholder of that child
C27_Witness ==
    /\ pc = "compiled"
    /\ Len(nodes) = 1
    /\ nodes[1].directive = N_slide
    /\ \E i \in 1..Len(nodes[1].children) :
          /\ nodes[1].children[i].directive = N_title
          /\ nodes[1].children[i].children # << >>
          /\ Find(html, nodes[1].children[i].content, 0) # -1
    /\ Find(html, placeholder_prefix, 0) # -1

(***************************************************************************)
(* C28: within one compile the element ids made for snippets, order-S-N,   *)
(* and for typewriters, typewriter-S-N, are pairwise distinct, and for     *)
(* each slide number S the numbers N that were given out are exactly 1..k  *)
(* without a gap; a snippet or typewriter with blank content gives no      *)
(* HTML and takes no number.                                               *)
(***************************************************************************)
\* the log entries of the handlers that made an id
Emitted(directive) ==
    {j \in 1..Len(Log) : Log[j].directive = directive /\ Log[j].html # << >>}

\* the id as written in the HTML of entry j: all before the closing quote
IdText(j) == Slice(Log[j].html, 0, Find(Log[j].html, <<"\"">>, 1))

\* S and N of the id prefix-S-N of entry j, read from the HTML
IdSlide(j) == StrToInt(Slice(IdText(j), 1, Find(IdText(j), <<"-">>, 1)))
IdNumber(j) == StrToInt(From(IdText(j), Find(IdText(j), <<"-">>, 1) + 1))

\* the counters as they were before the handler of entry j ran
CountersBefore(j) ==
    IF j = 1 THEN [o |-> EmptyDict, typewriter |-> EmptyDict] ELSE Log[j - 1].counters

TokenBefore(a, b) == b \in Below(a) \/ (a < b /\ a \notin Below(b))

C29_SnippetNumbersFollowSource ==
    Len(returned) <= 1 =>
        \A k \in 1..Len(Log) : \A a, b \in Emitted(N_o) :
            (EnclosingSlide(k, a) /\ EnclosingSlide(k, b) /\ TokenBefore(a, b))
            => IdNumber(a) < IdNumber(b)

\* as above for snippets of which neither lies inside the other
SiblingSnippetsFollowSource ==
    Len(returned) <= 1 =>
        \A k \in 1..Len(Log) : \A a, b \in Emitted(N_o) :
            (EnclosingSlide(k, a) /\ EnclosingSlide(k, b) /\ a < b /\ a \notin Below(b))
            => IdNumber(a) < IdNumber(b)

\* a slide compiled with a snippet inside a snippet: the inner one has the
\* number 1, the outer one the number 2
C29_Witness ==
    /\ pc = "compiled"
    /\ \E k \in 1..Len(Log) : \E a, b \in Emitted(N_o) :
          /\ EnclosingSlide(k, a) /\ EnclosingSlide(k, b)
          /\ b \in Below(a)
          /\ IdNumber(b) = 1 /\ IdNumber(a) = 2

(***************************************************************************)
(* C30: rendering can be repeated: ast_compile called twice on the same    *)
(* AST with the same Compiler returns the same HTML both times and leaves  *)
(* slide_count equal to the number of real slides of the AST.              *)
(***************************************************************************)
\* how many nodes of the forest node_compile counts (line 246)
RECURSIVE RealSlideCount(_)
RealSlideCount(ns) ==
    IF ns = << >> THEN 0
    ELSE (IF IsRealSlide(Head(ns)) THEN 1 ELSE 0)
         + RealSlideCount(Head(ns).children) + RealSlideCount(Tail(ns))

C30_RenderingIsRepeatable ==
    (pc = "compiled" /\ Len(returned) = 2) =>
        /\ returned[2] = returned[1]
        /\ compiler.slide_count = RealSlideCount(nodes)

\* after the first call slide_count is the number of real slides
FirstCallCountsSlides ==
    (pc = "compiled" /\ Len(returned) = 1) => compiler.slide_count = RealSlideCount(nodes)

\* two calls returned for an AST with a slide: the second HTML has the ids
\* of the next slide number
C30_Witness ==
    /\ pc = "compiled"
    /\ Len(returned) = 2
    /\ RealSlideCount(nodes) = 1
    /\ compiler.slide_count = 2
    /\ Find(returned[1], SlideIdOpen \o IntToStr(1), 0) # -1
    /\ Find(returned[2], SlideIdOpen \o IntToStr(2), 0) # -1
    /\ Find(returned[2], SlideIdOpen \o IntToStr(1), 0) = -1

\* two calls returned for an AST without slide, snippet and typewriter
RepeatedWithoutCounters ==
    (/\ pc = "compiled" /\ Len(returned) = 2
     /\ \A n \in Descendants(nodes) : n.directive \notin {N_slide, N_o, N_typewriter})
    => returned[2] = returned[1]

====
